---------------------------- MODULE Spec2Model ----------------------------
(***************************************************************************)
(* A state-machine model of the DocArray document containers and of the    *)
(* document-index adapters (Qdrant, Weaviate) with their query builder.    *)
(*                                                                         *)
(* Each component has its own variables, its own next-state relation and   *)
(* its own specification; the components do not share state.               *)
(*   SpecQdrant    QdrantDocumentIndex: index, get_items, del_items        *)
(*   SpecSearch    find / filter / text_search and their batched variants  *)
(*   SpecBuilder   WeaviateDocumentIndex.QueryBuilder                      *)
(*   SpecWeaviateInit  WeaviateDocumentIndex.__init__, step by step        *)
(*   SpecWeaviate  WeaviateDocumentIndex: index, del_items, num_docs       *)
(*   SpecArray     DocumentArray: construction and the list operations     *)
(*   SpecColumns   DocumentArray: column setters, stack and unstack        *)
(*   SpecWeaviateIndex  index() calls alone on an operational index        *)
(*   SpecWeaviateDel    _del_items alone on a populated index, fair        *)
(*   SpecTensor    parametrized tensor types: validation, type checks      *)
(*   SpecTopK      NumpyCompBackend.Retrieval.top_k                        *)
(*   SpecDocument  BaseDocument.update                                     *)
(*   SpecTraverse  DocumentArray.traverse_flat                             *)
(*   SpecBatch     AnyDocArray._batch                                      *)
(*   SpecApply     apply / apply_batch                                     *)
(*   SpecKind      python_type_to_db_type of the two indexes               *)
(*   SpecQdrantConcurrent  two threads calling _del_items on one index     *)
(***************************************************************************)
EXTENDS Integers, Sequences, FiniteSets, TLC

VARIABLES
    qPoints,    \* Qdrant collection: point id -> payload (a function)
    qLast,      \* outcome of the last QdrantDocumentIndex call
    sLast,      \* the last search call: its arguments and what it returned
    bQuery,     \* QueryBuilder._query: the accumulated weaviate query
    bLast,      \* the last QueryBuilder method called and what it returned
    bNetworkCalls,  \* queries the builder has sent to the backend (.do())
    wColumns,   \* WeaviateDocumentIndex: the schema's columns, in field order
    wpc,        \* where the index is: in __init__, operational, in _del_items
    wEmbeddingColumn,   \* self.embedding_column
    wProperties,        \* self.properties
    wCreateClassCalls,  \* calls of client.schema.create_class
    wObjects,   \* the objects persisted in the weaviate class: uuid -> object
    wDel,       \* _del_items in progress: its where filter and has_matches
    wLast,      \* the last WeaviateDocumentIndex call and its outcome
    aDocType,   \* DocumentArray: document_type of the typed array class
    aData,      \* DocumentArray.data: the documents, in order
    aStacked,   \* the DocumentArrayStacked made by stack(), <<>> when none
    aLast,      \* the last DocumentArray call and its outcome
    fCall       \* the last call of a stateless operation: arguments and result

qvars == <<qPoints, qLast>>
svars == <<sLast>>
bvars == <<bQuery, bLast, bNetworkCalls>>
wvars == <<wColumns, wpc, wEmbeddingColumn, wProperties, wCreateClassCalls,
           wObjects, wDel, wLast>>

avars == <<aDocType, aData, aStacked, aLast>>

fvars == <<fCall>>

vars == <<qvars, svars, bvars, wvars, avars, fvars>>

(***************************************************************************)
(* Common values                                                           *)
(***************************************************************************)
None == "None"

Range(s) == {s[i] : i \in 1..Len(s)}

\* All sequences over S of length 0..n
SeqsUpTo(S, n) == UNION {[1..k -> S] : k \in 0..n}

(***************************************************************************)
(* QdrantDocumentIndex  (src/docarray/index/backends/qdrant.py)            *)
(***************************************************************************)
\* number of distinct document ids the model draws from
MaxIds == 3
\* longest id list / row list handed to one call
MaxReq == 3

DocIds == 1..MaxIds

\* uuid.uuid5(UUID_NAMESPACE, external_id).hex: a deterministic digest of the
\* external id, kept distinct from the id itself
Qdrant_to_qdrant_id(external_id) == <<"uuid5", external_id>>

\* _build_point_from_row: the point id is derived from the row id, the 'id'
\* column travels in the payload
Qdrant_build_point_from_row(row) ==
    [id |-> Qdrant_to_qdrant_id(row), payload |-> [id |-> row]]

\* client.upsert(points): later points overwrite earlier ones with the same id
RECURSIVE QdrantUpsert(_, _)
QdrantUpsert(points, pts) ==
    IF pts = <<>> THEN points
    ELSE LET p == Head(pts)
             keep == [k \in (DOMAIN points) \ {p.id} |-> points[k]]
         IN QdrantUpsert(keep @@ (p.id :> p.payload), Tail(pts))

\* client.scroll(scroll_filter=HasIdCondition(has_id), limit): the stored points
\* whose id is listed, at most `limit` of them
QdrantScroll(points, has_id, limit) ==
    LET m == {k \in DOMAIN points : k \in Range(has_id)}
    IN IF Cardinality(m) <= limit THEN m
       ELSE CHOOSE s \in SUBSET m : Cardinality(s) = limit

\* _get_items: the payloads (documents) of the scrolled points
Qdrant_get_items(points, doc_ids) ==
    LET has_id == [i \in 1..Len(doc_ids) |-> Qdrant_to_qdrant_id(doc_ids[i])]
    IN {[pid |-> k, doc |-> points[k]] :
            k \in QdrantScroll(points, has_id, Len(doc_ids))}

\* a plausible slip: the error is raised only when nothing at all was found
QdrantDelMustRaiseNothingFound(items, doc_ids) ==
    Cardinality(items) = 0 /\ Len(doc_ids) > 0

\* _del_items, line 151: len(items) < len(doc_ids)
QdrantDelMustRaise(items, doc_ids) ==
    Cardinality(items) < Len(doc_ids)

\* _del_items, lines 152-153
QdrantMissingKeys(items, doc_ids) ==
    Range(doc_ids) \ {it.doc.id : it \in items}

\* client.delete(points_selector=PointIdsList(points))
QdrantDelete(points, doc_ids) ==
    LET gone == {Qdrant_to_qdrant_id(doc_ids[i]) : i \in 1..Len(doc_ids)}
    IN [k \in (DOMAIN points) \ gone |-> points[k]]

\* the document ids currently persisted
QdrantStoredIds(points) == {points[k].id : k \in DOMAIN points}

QdrantInit ==
    /\ qPoints = <<>>
    /\ qLast = [op |-> "init", ids |-> <<>>, status |-> "ok",
                missing |-> {}, pre |-> <<>>]

\* _index(rows): build one point per row and upsert them
Qdrant_index(rows) ==
    /\ qPoints' = QdrantUpsert(qPoints,
                     [i \in 1..Len(rows) |-> Qdrant_build_point_from_row(rows[i])])
    /\ qLast' = [op |-> "index", ids |-> rows, status |-> "ok",
                 missing |-> {}, pre |-> qPoints]

\* _del_items(doc_ids)
Qdrant_del_items(doc_ids) ==
    LET items == Qdrant_get_items(qPoints, doc_ids)
    IN IF QdrantDelMustRaise(items, doc_ids)
       THEN /\ qPoints' = qPoints
            /\ qLast' = [op |-> "del_items", ids |-> doc_ids,
                         status |-> "KeyError",
                         missing |-> QdrantMissingKeys(items, doc_ids),
                         pre |-> qPoints]
       ELSE /\ qPoints' = QdrantDelete(qPoints, doc_ids)
            /\ qLast' = [op |-> "del_items", ids |-> doc_ids, status |-> "ok",
                         missing |-> {}, pre |-> qPoints]

QdrantIndexStep ==
    /\ \E rows \in SeqsUpTo(DocIds, MaxReq) : Qdrant_index(rows)
    /\ UNCHANGED <<svars, bvars, wvars, avars, fvars>>

QdrantDelStep ==
    /\ \E doc_ids \in SeqsUpTo(DocIds, MaxReq) : Qdrant_del_items(doc_ids)
    /\ UNCHANGED <<svars, bvars, wvars, avars, fvars>>

QdrantNext == QdrantIndexStep \/ QdrantDelStep

(***************************************************************************)
(* Search: find, filter, text_search and the batched variants              *)
(* (src/docarray/doc_index/backends/weaviate_doc_index.py,                 *)
(*  src/docarray/index/backends/qdrant.py)                                 *)
(*                                                                         *)
(* The searched collection is fixed: documents 1..MaxSearchDocs, document  *)
(* d carrying the embedding d, the payload number d and the text d.        *)
(***************************************************************************)
\* documents in the searched collection
MaxSearchDocs == 3
\* queries handed to one batched call
MaxQueries == 2
\* largest limit / score_threshold passed
MaxLimit == 2

SearchDocs == 1..MaxSearchDocs
QueryValues == 0..MaxSearchDocs
Limits == 1..MaxLimit
ScoreNames == {"certainty", "distance"}
\* score_threshold: Optional[float] = None; the absent threshold, kept apart from
\* every threshold a caller can pass (0 included)
NoThreshold == -1
ScoreThresholds == {NoThreshold} \cup (0..MaxLimit)

Abs(x) == IF x < 0 THEN -x ELSE x

\* the backend's distance between a query vector and a stored embedding
Distance(q, d) == Abs(q - d)
\* the backend's certainty: high when the distance is low
Certainty(q, d) == MaxSearchDocs - Distance(q, d)
\* the backend's bm25 score of a text query
Bm25(q, d) == IF Distance(q, d) <= 1 THEN 2 - Distance(q, d) ELSE 0

\* result["_additional"][score_name]
Score(score_name, q, d) ==
    CASE score_name = "distance" -> Distance(q, d)
      [] score_name = "certainty" -> Certainty(q, d)
      [] OTHER -> Bm25(q, d)

\* S as a sequence, ascending by key (a function on S), ties by document id
RECURSIVE SortByKey(_, _)
SortByKey(S, key) ==
    IF S = {} THEN <<>>
    ELSE LET x == CHOOSE x \in S : \A y \in S :
                      key[x] < key[y] \/ (key[x] = key[y] /\ x <= y)
         IN <<x>> \o SortByKey(S \ {x}, key)

\* .with_limit(limit)
Take(seq, limit) == IF Len(seq) <= limit THEN seq ELSE SubSeq(seq, 1, limit)

\* Python truthiness of an Optional[float]: None and 0.0 are both false
Truthy(x) == x /= NoThreshold /\ x /= 0

\* near_vector = {"vector": query}; if score_threshold: near_vector[score_name] = ...
\* (_find lines 228-232, _find_batched 284-287, QueryBuilder.find 472-476);
\* an absent key is NoThreshold
NearVector(query, score_name, score_threshold) ==
    [vector |-> query,
     certainty |-> IF Truthy(score_threshold) /\ score_name = "certainty"
                   THEN score_threshold ELSE NoThreshold,
     distance |-> IF Truthy(score_threshold) /\ score_name = "distance"
                  THEN score_threshold ELSE NoThreshold]

\* the backend's nearVector search: inclusive cutoffs first, then nearest first
WeaviateNearVectorSearch(near_vector) ==
    LET q == near_vector.vector
        pass == {d \in SearchDocs :
                    /\ near_vector.certainty /= NoThreshold
                          => Certainty(q, d) >= near_vector.certainty
                    /\ near_vector.distance /= NoThreshold
                          => Distance(q, d) <= near_vector.distance}
    IN SortByKey(pass, [d \in pass |-> Distance(q, d)])

\* the backend's bm25 search: matching documents, best score first
WeaviateBm25Search(q) ==
    LET hit == {d \in SearchDocs : Bm25(q, d) > 0}
    IN SortByKey(hit, [d \in hit |-> 0 - Bm25(q, d)])

\* the backend's where filter: documents whose payload number is at most f
WhereSearch(f) ==
    LET hit == {d \in SearchDocs : d <= f}
    IN SortByKey(hit, [d \in hit |-> 0])

\* _format_response: the documents and, beside them, their scores
FormatResponse(group, score_name, q) ==
    [documents |-> group,
     scores |-> [i \in 1..Len(group) |-> Score(score_name, q, group[i])]]

\* what one query returns when it is asked alone
FindOne(q, limit, score_name, score_threshold) ==
    FormatResponse(Take(WeaviateNearVectorSearch(
                       NearVector(q, score_name, score_threshold)), limit),
                   score_name, q)

TextSearchOne(q, limit) ==
    FormatResponse(Take(WeaviateBm25Search(q), limit), "score", q)

FilterOne(f, limit) == Take(WhereSearch(f), limit)

\* Qdrant: search without a threshold, scored by the collection's distance
QdrantSearchOne(q, limit) ==
    LET all == SortByKey(SearchDocs, [d \in SearchDocs |-> Distance(q, d)])
    IN FormatResponse(Take(all, limit), "distance", q)

\* Qdrant text search: a MatchText filter, every hit scored 1.0
QdrantTextOne(q, limit) ==
    LET docs == Take(WeaviateBm25Search(q), limit)
    IN [documents |-> docs, scores |-> [i \in 1..Len(docs) |-> 1]]

\* the orders in which a multi_get response can list its n aliased groups
\* query_0 .. query_n-1: position j of the response holds alias order[j]
ResponseOrders(n) ==
    {o \in [1..n -> 1..n] : \A i, j \in 1..n : o[i] = o[j] => i = j}

\* results["data"]["Get"].values(): the groups in the response's own order
\* (_filter_batched 210-213, _find_batched 301-304, _text_search_batched 409-412)
GetValues(groups, order) == [j \in 1..Len(groups) |-> groups[order[j]]]

SearchCall(op, backend, queries, limit, score_name, score_threshold, result) ==
    [op |-> op, backend |-> backend, queries |-> queries, limit |-> limit,
     score_name |-> score_name, score_threshold |-> score_threshold,
     result |-> result]

SearchInit ==
    sLast = SearchCall("init", None, <<>>, 1, None, NoThreshold, <<>>)

QuerySeqs == SeqsUpTo(QueryValues, MaxQueries) \ {<<>>}

\* a search call is made when no result is pending
SearchIdle == sLast.op = "init"

\* WeaviateDocumentIndex._find
Weaviate_find ==
    /\ SearchIdle
    /\ \E query \in QueryValues, limit \in Limits, score_name \in ScoreNames,
          score_threshold \in ScoreThresholds :
           sLast' = SearchCall("find", "weaviate", <<query>>, limit, score_name,
                        score_threshold,
                        <<FindOne(query, limit, score_name, score_threshold)>>)
    /\ UNCHANGED <<qvars, bvars, wvars, avars, fvars>>

\* WeaviateDocumentIndex._find_batched
Weaviate_find_batched ==
    /\ SearchIdle
    /\ \E queries \in QuerySeqs, limit \in Limits, score_name \in ScoreNames,
          score_threshold \in ScoreThresholds :
           \E order \in ResponseOrders(Len(queries)) :
              LET groups == [i \in 1..Len(queries) |->
                      FindOne(queries[i], limit, score_name, score_threshold)]
              IN sLast' = SearchCall("find_batched", "weaviate", queries, limit,
                              score_name, score_threshold,
                              GetValues(groups, order))
    /\ UNCHANGED <<qvars, bvars, wvars, avars, fvars>>

\* WeaviateDocumentIndex._filter_batched
Weaviate_filter_batched ==
    /\ SearchIdle
    /\ \E filter_queries \in QuerySeqs, limit \in Limits :
           \E order \in ResponseOrders(Len(filter_queries)) :
              LET groups == [i \in 1..Len(filter_queries) |->
                                FilterOne(filter_queries[i], limit)]
              IN sLast' = SearchCall("filter_batched", "weaviate",
                              filter_queries, limit, None, NoThreshold,
                              GetValues(groups, order))
    /\ UNCHANGED <<qvars, bvars, wvars, avars, fvars>>

\* WeaviateDocumentIndex._text_search_batched
Weaviate_text_search_batched ==
    /\ SearchIdle
    /\ \E queries \in QuerySeqs, limit \in Limits :
           \E order \in ResponseOrders(Len(queries)) :
              LET groups == [i \in 1..Len(queries) |->
                                TextSearchOne(queries[i], limit)]
              IN sLast' = SearchCall("text_search_batched", "weaviate", queries,
                              limit, "score", NoThreshold,
                              GetValues(groups, order))
    /\ UNCHANGED <<qvars, bvars, wvars, avars, fvars>>

\* QdrantDocumentIndex._find_batched: search_batch answers request i at
\* position i, and the code keeps that order
Qdrant_find_batched ==
    /\ SearchIdle
    /\ \E queries \in QuerySeqs, limit \in Limits :
           sLast' = SearchCall("find_batched", "qdrant", queries, limit,
                        "distance", NoThreshold,
                        [i \in 1..Len(queries) |->
                            QdrantSearchOne(queries[i], limit)])
    /\ UNCHANGED <<qvars, bvars, wvars, avars, fvars>>

\* QdrantDocumentIndex._filter_batched: one scroll per filter, appended in turn
Qdrant_filter_batched ==
    /\ SearchIdle
    /\ \E filter_queries \in QuerySeqs, limit \in Limits :
           sLast' = SearchCall("filter_batched", "qdrant", filter_queries, limit,
                        None, NoThreshold,
                        [i \in 1..Len(filter_queries) |->
                            FilterOne(filter_queries[i], limit)])
    /\ UNCHANGED <<qvars, bvars, wvars, avars, fvars>>

\* QdrantDocumentIndex._text_search_batched
Qdrant_text_search_batched ==
    /\ SearchIdle
    /\ \E queries \in QuerySeqs, limit \in Limits :
           sLast' = SearchCall("text_search_batched", "qdrant", queries, limit,
                        "score", NoThreshold,
                        [i \in 1..Len(queries) |->
                            QdrantTextOne(queries[i], limit)])
    /\ UNCHANGED <<qvars, bvars, wvars, avars, fvars>>

(***************************************************************************)
(* WeaviateDocumentIndex.QueryBuilder                                      *)
(* (src/docarray/doc_index/backends/weaviate_doc_index.py, lines 442-497)  *)
(***************************************************************************)
\* build() calls made on one builder
MaxBuilds == 2

\* "id" is reserved in weaviate: the id column is stored as DOCUMENTID
DOCUMENTID == "docarrayid"

\* where filters a caller passes: a comparison on a path, or an Or of comparisons
LeafFilters ==
    {[path |-> <<p>>, operator |-> "Equal", value |-> v, operands |-> <<>>] :
        p \in {"id", "price"}, v \in SearchDocs}
OrFilters ==
    {[path |-> <<>>, operator |-> "Or", value |-> 0, operands |-> <<a, b>>] :
        a \in LeafFilters, b \in {f \in LeafFilters : f.value = 1}}
\* an Or nested in an Or
NestedFilters ==
    {[path |-> <<>>, operator |-> "Or", value |-> 0, operands |-> <<a, b>>] :
        a \in OrFilters, b \in {f \in LeafFilters : f.value = 1 /\ f.path = <<"price">>}}
WhereFilters == LeafFilters \cup OrFilters \cup NestedFilters

\* The dictionaries of a where filter as objects: a heap maps an address to a
\* dictionary whose operands are the addresses of the nested dictionaries.
\* The caller's dictionary is at CallerAddr, the operand i of the dictionary
\* at addr is at Append(addr, i).
CallerAddr == <<>>

RECURSIVE FilterHeap(_, _)
RECURSIVE OperandHeaps(_, _, _)
FilterHeap(where_filter, addr) ==
    (addr :> [path |-> where_filter.path,
              operator |-> where_filter.operator,
              value |-> where_filter.value,
              operands |-> [i \in 1..Len(where_filter.operands) |->
                               Append(addr, i)]])
    @@ OperandHeaps(where_filter, addr, 1)

OperandHeaps(where_filter, addr, i) ==
    IF i > Len(where_filter.operands) THEN [a \in {} |-> 0]
    ELSE FilterHeap(where_filter.operands[i], Append(addr, i))
         @@ OperandHeaps(where_filter, addr, i + 1)

\* the where filter a dictionary of the heap stands for
RECURSIVE Deref(_, _)
Deref(heap, addr) ==
    [path |-> heap[addr].path,
     operator |-> heap[addr].operator,
     value |-> heap[addr].value,
     operands |-> [i \in 1..Len(heap[addr].operands) |->
                      Deref(heap, heap[addr].operands[i])]]

\* where_filter.copy(): a new dictionary with the values of the old one; the
\* list of operands and the dictionaries in it are shared
CopyAddr == <<0>>
Dict_copy(heap, addr, new) == (new :> heap[addr]) @@ heap

\* _overwrite_id on the dictionaries at addrs, one after the other: a path
\* ["id"] is overwritten with [DOCUMENTID] in the dictionary itself, then the
\* dictionaries of its operands are visited
RECURSIVE QueryBuilder_overwrite_id(_, _)
QueryBuilder_overwrite_id(heap, addrs) ==
    IF addrs = <<>> THEN heap
    ELSE LET addr == Head(addrs)
             overwritten ==
                 IF heap[addr].path = <<"id">>
                 THEN [heap EXCEPT ![addr].path = <<DOCUMENTID>>]
                 ELSE heap
         IN QueryBuilder_overwrite_id(overwritten,
                                      heap[addr].operands \o Tail(addrs))

\* filter, lines 485-486: the heap after the copy and _overwrite_id on it
QueryBuilder_filter_heap(where_filter) ==
    QueryBuilder_overwrite_id(
        Dict_copy(FilterHeap(where_filter, CallerAddr), CallerAddr, CopyAddr),
        <<CopyAddr>>)

\* the backend's evaluation of a where filter on document d: the id column is
\* stored under DOCUMENTID, the payload number under "price"
RECURSIVE WhereHolds(_, _)
WhereHolds(f, d) ==
    CASE f.operator = "Or" ->
            \E i \in 1..Len(f.operands) : WhereHolds(f.operands[i], d)
      [] f.path = <<DOCUMENTID>> -> d = f.value
      [] f.path = <<"price">> -> d = f.value
      [] OTHER -> FALSE

\* client.query.get(index_name, properties): a query with no clause yet; an
\* absent clause is the empty sequence
NewQuery == [near_vector |-> <<>>, where |-> <<>>]

\* the methods that accumulate a clause
AccumulatingMethods ==
    {"find", "filter", "text_search", "find_batched", "filter_batched",
     "text_search_batched"}

\* self._query.do(): the backend answers the accumulated query
QueryDo(query) ==
    LET near == IF query.near_vector = <<>>
                THEN SortByKey(SearchDocs, [d \in SearchDocs |-> 0])
                ELSE WeaviateNearVectorSearch(query.near_vector[1])
    IN SelectSeq(near, LAMBDA d :
           query.where = <<>> \/ WhereHolds(query.where[1], d))

\* QueryBuilder.find, lines 472-478: the query with the near_vector clause
QueryBuilder_find_query(query, vec, score_name, score_threshold) ==
    [query EXCEPT !.near_vector = <<NearVector(vec, score_name, score_threshold)>>]

\* QueryBuilder.filter, lines 485-487: the query with the where clause
QueryBuilder_filter_query(query, where_filter) ==
    [query EXCEPT
        !.where = <<Deref(QueryBuilder_filter_heap(where_filter), CopyAddr)>>]

\* built: build() has been called on this builder
BuilderCall(method, ret, response, built) ==
    [method |-> method, ret |-> ret, response |-> response, built |-> built]

BuilderInit ==
    /\ bQuery = NewQuery
    /\ bLast = BuilderCall("__init__", None, <<>>, FALSE)
    /\ bNetworkCalls = 0

\* build_query(): QueryBuilder.__init__ on the index
QueryBuilder_init ==
    /\ bQuery' = NewQuery
    /\ bLast' = BuilderCall("__init__", None, <<>>, FALSE)
    /\ bNetworkCalls' = 0
    /\ UNCHANGED <<qvars, svars, wvars, avars, fvars>>

\* QueryBuilder.find: one near filter per query (the client refuses a second)
QueryBuilder_find ==
    /\ bQuery.near_vector = <<>>
    /\ \E vec \in QueryValues, n \in ScoreNames, t \in ScoreThresholds :
           bQuery' = QueryBuilder_find_query(bQuery, vec, n, t)
    /\ bLast' = BuilderCall("find", "self", <<>>, bLast.built)
    /\ UNCHANGED <<bNetworkCalls, qvars, svars, wvars, avars, fvars>>

\* QueryBuilder.filter; where_filter is the caller's filter before the call,
\* caller_filter the same dictionary after it
QueryBuilder_filter ==
    /\ \E w \in WhereFilters :
          /\ bQuery' = QueryBuilder_filter_query(bQuery, w)
          /\ bLast' = BuilderCall("filter", "self", <<>>, bLast.built) @@
                      [where_filter |-> w,
                       caller_filter |->
                           Deref(QueryBuilder_filter_heap(w), CallerAddr)]
    /\ UNCHANGED <<bNetworkCalls, qvars, svars, wvars, avars, fvars>>

\* find_batched, filter_batched, text_search, text_search_batched: the body is
\* `pass`, so the call changes nothing and returns None
QueryBuilder_pass(method) ==
    /\ bLast' = BuilderCall(method, None, <<>>, bLast.built)
    /\ UNCHANGED <<bQuery, bNetworkCalls, qvars, svars, wvars, avars, fvars>>

QueryBuilder_find_batched == QueryBuilder_pass("find_batched")

QueryBuilder_filter_batched == QueryBuilder_pass("filter_batched")

QueryBuilder_text_search == QueryBuilder_pass("text_search")

QueryBuilder_text_search_batched == QueryBuilder_pass("text_search_batched")

\* QueryBuilder.build: self._query.do()
QueryBuilder_build ==
    /\ bNetworkCalls < MaxBuilds
    /\ bNetworkCalls' = bNetworkCalls + 1
    /\ bLast' = BuilderCall("build", "response", QueryDo(bQuery), TRUE)
    /\ UNCHANGED <<bQuery, qvars, svars, wvars, avars, fvars>>

BuilderNext ==
    \/ QueryBuilder_init
    \/ QueryBuilder_find
    \/ QueryBuilder_filter
    \/ QueryBuilder_find_batched
    \/ QueryBuilder_filter_batched
    \/ QueryBuilder_text_search
    \/ QueryBuilder_text_search_batched
    \/ QueryBuilder_build

\* index.build_query().find(vec, score_name, score_threshold).build(): the
\* fluent chain, answered by the backend without a limit
QueryBuilderFindBuildStep ==
    /\ SearchIdle
    /\ \E vec \in QueryValues, n \in ScoreNames, t \in ScoreThresholds :
           sLast' = SearchCall("builder_find", "weaviate", <<vec>>, MaxSearchDocs,
                        n, t,
                        <<FormatResponse(
                            QueryDo(QueryBuilder_find_query(NewQuery, vec, n, t)),
                            n, vec)>>)
    /\ UNCHANGED <<qvars, bvars, wvars, avars, fvars>>

\* the caller takes the result; the index keeps nothing of a search
SearchReturn ==
    /\ ~SearchIdle
    /\ sLast' = SearchCall("init", None, <<>>, 1, None, NoThreshold, <<>>)
    /\ UNCHANGED <<qvars, bvars, wvars, avars, fvars>>

SearchNext ==
    \/ Weaviate_find
    \/ Weaviate_find_batched
    \/ Weaviate_filter_batched
    \/ Weaviate_text_search_batched
    \/ Qdrant_find_batched
    \/ Qdrant_filter_batched
    \/ Qdrant_text_search_batched
    \/ QueryBuilderFindBuildStep
    \/ SearchReturn

(***************************************************************************)
(* WeaviateDocumentIndex: construction                                     *)
(* (src/docarray/doc_index/backends/weaviate_doc_index.py, lines 49-131)   *)
(***************************************************************************)
\* fields a schema declares besides id
MaxCols == 2

\* the field types a schema draws from; NdArray subclasses numpy.ndarray
PyTypes == {"NdArray", "list", "str", "dict"}

\* WEAVIATE_PY_VEC_TYPES = [list, np.ndarray]
WEAVIATE_PY_VEC_TYPES == {"list", "np.ndarray"}
\* WEAVIATE_PY_TYPES = [bool, int, float, str, docarray.typing.ID]
WEAVIATE_PY_TYPES == {"bool", "int", "float", "str", "ID"}

\* issubclass(python_type, allowed_type) for an allowed vector type
IsVecSubclass(python_type, allowed_type) ==
    \/ python_type = allowed_type
    \/ python_type = "NdArray" /\ allowed_type = "np.ndarray"

\* python_type_to_db_type, lines 428-437
Weaviate_python_type_to_db_type(python_type) ==
    IF \E allowed_type \in WEAVIATE_PY_VEC_TYPES :
           IsVecSubclass(python_type, allowed_type)
    THEN "np.ndarray"
    ELSE IF python_type \in WEAVIATE_PY_TYPES THEN python_type
    ELSE "ValueError"

\* one column of self._column_infos, as the base class derives it from a field
ColumnInfo(name, python_type, is_embedding) ==
    [name |-> name, docarray_type |-> python_type,
     db_type |-> Weaviate_python_type_to_db_type(python_type),
     is_embedding |-> is_embedding]

FieldNames == [i \in 1..(MaxCols + 1) |-> <<"field", i>>]

\* the schemas: the id field, then up to MaxCols declared fields
Schemas ==
    {[i \in 1..(Len(decl) + 1) |->
         IF i = 1 THEN [name |-> "id", python_type |-> "ID", is_embedding |-> FALSE]
         ELSE [name |-> FieldNames[i - 1], python_type |-> decl[i - 1][1],
               is_embedding |-> decl[i - 1][2]]] :
        decl \in SeqsUpTo(PyTypes \X BOOLEAN, MaxCols)}

\* self._column_infos of a schema
ColumnInfos(schema) ==
    [i \in 1..Len(schema) |->
        ColumnInfo(schema[i].name, schema[i].python_type, schema[i].is_embedding)]

\* a plausible slip: only the number of embedding columns is checked
RECURSIVE ValidateColumnsCountOnly(_, _)
ValidateColumnsCountOnly(columns, num_embedding_columns) ==
    IF columns = <<>>
    THEN IF num_embedding_columns > 1 THEN "ValueError" ELSE "ok"
    ELSE ValidateColumnsCountOnly(Tail(columns),
             IF Head(columns).is_embedding THEN num_embedding_columns + 1
             ELSE num_embedding_columns)

\* _validate_columns, lines 75-88: the loop over the columns, then the count
RECURSIVE ValidateColumns(_, _)
ValidateColumns(columns, num_embedding_columns) ==
    IF columns = <<>>
    THEN IF num_embedding_columns > 1 THEN "ValueError" ELSE "ok"
    ELSE IF Head(columns).is_embedding
         THEN IF Head(columns).db_type \notin WEAVIATE_PY_VEC_TYPES
              THEN "ValueError"
              ELSE ValidateColumns(Tail(columns), num_embedding_columns + 1)
         ELSE ValidateColumns(Tail(columns), num_embedding_columns)

\* _set_embedding_column, lines 90-94: the first column marked is_embedding
SetEmbeddingColumn(columns) ==
    IF \E i \in 1..Len(columns) : columns[i].is_embedding
    THEN columns[CHOOSE i \in 1..Len(columns) :
                    /\ columns[i].is_embedding
                    /\ \A j \in 1..(i - 1) : ~columns[j].is_embedding].name
    ELSE None

\* _set_properties, lines 61-68: the columns not marked is_embedding, id renamed
SetProperties(columns) ==
    LET keep == SelectSeq(columns, LAMBDA c : ~c.is_embedding)
    IN [i \in 1..Len(keep) |->
           IF keep[i].name = "id" THEN DOCUMENTID ELSE keep[i].name]

\* no _del_items in progress; calls counts the batch-delete queries of the
\* last _del_items and matched the objects its filter matched when it began
DelIdle == [ids |-> <<>>, has_matches |-> FALSE, calls |-> 0, matched |-> 0]

WeaviateNewInit ==
    /\ wColumns = <<>>
    /\ wpc = "new"
    /\ wEmbeddingColumn = None
    /\ wProperties = <<>>
    /\ wCreateClassCalls = 0
    /\ wObjects = <<>>
    /\ wDel = DelIdle
    /\ wLast = [op |-> "idle", status |-> "ok", ids |-> <<>>, preIds |-> {}]

WeaviateOthers == <<qvars, svars, bvars, avars, fvars>>

\* __init__, lines 50-55: the base class derives the column infos (an
\* unsupported field type raises), then the client is created and configured
Weaviate_init_super ==
    /\ wpc = "new"
    /\ \E schema \in Schemas :
          LET infos == ColumnInfos(schema)
          IN /\ wColumns' = infos
             /\ wpc' = IF \E i \in 1..Len(infos) : infos[i].db_type = "ValueError"
                       THEN "failed" ELSE "configured"
    /\ wEmbeddingColumn' = None
    /\ wProperties' = <<>>
    /\ UNCHANGED <<wCreateClassCalls, wObjects, wDel, wLast, WeaviateOthers>>

\* __init__, line 56: self._validate_columns()
Weaviate_validate_columns ==
    /\ wpc = "configured"
    /\ wpc' = IF ValidateColumns(wColumns, 0) = "ok" THEN "validated" ELSE "failed"
    /\ UNCHANGED <<wColumns, wEmbeddingColumn, wProperties, wCreateClassCalls,
                   wObjects, wDel, wLast, WeaviateOthers>>

\* __init__, line 57: self._set_embedding_column()
Weaviate_set_embedding_column ==
    /\ wpc = "validated"
    /\ wEmbeddingColumn' = SetEmbeddingColumn(wColumns)
    /\ wpc' = "embedding_set"
    /\ UNCHANGED <<wColumns, wProperties, wCreateClassCalls, wObjects, wDel,
                   wLast, WeaviateOthers>>

\* __init__, line 58: self._set_properties()
Weaviate_set_properties ==
    /\ wpc = "embedding_set"
    /\ wProperties' = SetProperties(wColumns)
    /\ wpc' = "properties_set"
    /\ UNCHANGED <<wColumns, wEmbeddingColumn, wCreateClassCalls, wObjects, wDel,
                   wLast, WeaviateOthers>>

\* __init__, line 59: self._create_schema(); the class does not exist yet, so
\* create_class is called, and the index is ready
Weaviate_create_schema ==
    /\ wpc = "properties_set"
    /\ wCreateClassCalls' = wCreateClassCalls + 1
    /\ wpc' = "operational"
    /\ UNCHANGED <<wColumns, wEmbeddingColumn, wProperties, wObjects, wDel,
                   wLast, WeaviateOthers>>

WeaviateInitNext ==
    \/ Weaviate_init_super
    \/ Weaviate_validate_columns
    \/ Weaviate_set_embedding_column
    \/ Weaviate_set_properties
    \/ Weaviate_create_schema

(***************************************************************************)
(* WeaviateDocumentIndex: index, del_items, num_docs                       *)
(* (src/docarray/doc_index/backends/weaviate_doc_index.py, lines 158-179,  *)
(*  336-374, 420-426)                                                      *)
(*                                                                         *)
(* The documents have the fields id, text and tens.  Two schemas stand for *)
(* the operational indexes: one marks tens as the embedding, the other     *)
(* (like SimpleDoc of tests/doc_index/weaviate) marks no field.            *)
(***************************************************************************)
\* distinct document ids
MaxWIds == 2
\* documents handed to one index() call, ids handed to one del_items() call
MaxIndexDocs == 2
\* objects the backend deletes in one batch-delete query
MaxDeletesPerQuery == 2

WIds == 1..MaxWIds
Texts == {"t1", "t2"}
Tensors == {"v1", "v2"}

\* a document as a row: its column values
WDocs == [id : WIds, text : Texts, tens : Tensors]

SchemaWithEmbedding ==
    <<[name |-> "id", python_type |-> "ID", is_embedding |-> FALSE],
      [name |-> "text", python_type |-> "str", is_embedding |-> FALSE],
      [name |-> "tens", python_type |-> "NdArray", is_embedding |-> TRUE]>>

SchemaWithoutEmbedding ==
    <<[name |-> "id", python_type |-> "ID", is_embedding |-> FALSE],
      [name |-> "text", python_type |-> "str", is_embedding |-> FALSE],
      [name |-> "tens", python_type |-> "NdArray", is_embedding |-> FALSE]>>

OperationalSchemas == {SchemaWithEmbedding, SchemaWithoutEmbedding}

\* the state __init__ leaves behind for a schema it accepts
WeaviateOperationalInit ==
    /\ \E schema \in OperationalSchemas :
          /\ ValidateColumns(ColumnInfos(schema), 0) = "ok"
          /\ wColumns = ColumnInfos(schema)
    /\ wpc = "operational"
    /\ wEmbeddingColumn = SetEmbeddingColumn(wColumns)
    /\ wProperties = SetProperties(wColumns)
    /\ wCreateClassCalls = 1
    /\ wObjects = <<>>
    /\ wDel = DelIdle
    /\ wLast = [op |-> "idle", status |-> "ok", ids |-> <<>>, preIds |-> {}]

\* weaviate.util.generate_uuid5(parsed_doc, index_name): a digest of the
\* object's properties
GenerateUuid5(parsed_doc) == <<"uuid5", parsed_doc>>

\* _rewrite_documentid, lines 336-343: the id travels under DOCUMENTID
Weaviate_rewrite_documentid(document) ==
    [k \in ((DOMAIN document) \ {"id"}) \cup {DOCUMENTID} |->
        IF k = DOCUMENTID THEN document.id ELSE document[k]]

\* dict minus one key: what parsed_doc.pop(key) leaves
Without(dict, key) == [k \in (DOMAIN dict) \ {key} |-> dict[k]]

\* the uuid is taken from the document with its embedding
RECURSIVE BatchAddUuidOfWholeDocument(_, _, _)
BatchAddUuidOfWholeDocument(objects, docs, embedding_column) ==
    IF docs = <<>> THEN objects
    ELSE LET rewritten == Weaviate_rewrite_documentid(Head(docs))
             vector == rewritten[embedding_column]
             parsed_doc == Without(rewritten, embedding_column)
             uuid == GenerateUuid5(rewritten)
             obj == [data_object |-> parsed_doc, vector |-> vector]
             keep == [k \in (DOMAIN objects) \ {uuid} |-> objects[k]]
         IN BatchAddUuidOfWholeDocument(keep @@ (uuid :> obj), Tail(docs),
                                        embedding_column)

\* _index, lines 365-374: each document is rewritten, its embedding popped, and
\* added to the batch under the uuid of what is left; the batch is flushed when
\* the with-block closes, an object with a known uuid being replaced
RECURSIVE WeaviateBatchAdd(_, _, _)
WeaviateBatchAdd(objects, docs, embedding_column) ==
    IF docs = <<>> THEN objects
    ELSE LET rewritten == Weaviate_rewrite_documentid(Head(docs))
             vector == rewritten[embedding_column]
             parsed_doc == Without(rewritten, embedding_column)
             uuid == GenerateUuid5(parsed_doc)
             obj == [data_object |-> parsed_doc, vector |-> vector]
             keep == [k \in (DOMAIN objects) \ {uuid} |-> objects[k]]
         IN WeaviateBatchAdd(keep @@ (uuid :> obj), Tail(docs), embedding_column)

\* num_docs, lines 420-426: the meta count of the class
Weaviate_num_docs == Cardinality(DOMAIN wObjects)

\* the document ids persisted
WeaviateStoredIds(objects) ==
    {objects[k].data_object[DOCUMENTID] : k \in DOMAIN objects}

\* the objects the where filter of _del_items / _get_items matches: an Or of
\* docarrayid Equal doc_id
WeaviateMatches(objects, doc_ids) ==
    {k \in DOMAIN objects : objects[k].data_object[DOCUMENTID] \in Range(doc_ids)}

\* the uuids index() can give to an object
Uuids ==
    {GenerateUuid5(Without(Weaviate_rewrite_documentid(doc), "tens")) :
        doc \in WDocs}

\* what index() calls leave behind on an index with an embedding column: any
\* set of objects, each under the uuid of its properties
PersistedObjects ==
    UNION {{[k \in K |-> [data_object |-> k[2], vector |-> vec[k]]] :
               vec \in [K -> Tensors]} : K \in SUBSET Uuids}

\* an operational index with an embedding column, holding objects
WeaviatePopulatedInit ==
    /\ wColumns = ColumnInfos(SchemaWithEmbedding)
    /\ wpc = "operational"
    /\ wEmbeddingColumn = SetEmbeddingColumn(wColumns)
    /\ wProperties = SetProperties(wColumns)
    /\ wCreateClassCalls = 1
    /\ wObjects \in PersistedObjects
    /\ wDel = DelIdle
    /\ wLast = [op |-> "idle", status |-> "ok", ids |-> <<>>, preIds |-> {}]

WeaviateIdle == wpc = "operational" /\ wLast.op = "idle"

WeaviateCall(op, status, ids) ==
    [op |-> op, status |-> status, ids |-> ids,
     preIds |-> WeaviateStoredIds(wObjects)]

\* _index(docs): parsed_doc.pop(self.embedding_column) raises KeyError on the
\* first document when embedding_column is None (no key None in the dict)
Weaviate_index ==
    /\ WeaviateIdle
    /\ \E docs \in SeqsUpTo(WDocs, MaxIndexDocs) :
          LET ids == [i \in 1..Len(docs) |-> docs[i].id]
          IN IF wEmbeddingColumn = None /\ docs /= <<>>
             THEN /\ wObjects' = wObjects
                  /\ wLast' = WeaviateCall("index", "KeyError", ids)
             ELSE /\ wObjects' = WeaviateBatchAdd(wObjects, docs, wEmbeddingColumn)
                  /\ wLast' = WeaviateCall("index", "ok", ids)
    /\ UNCHANGED <<wColumns, wpc, wEmbeddingColumn, wProperties,
                   wCreateClassCalls, wDel, WeaviateOthers>>

\* _del_items(doc_ids), lines 159-168: the where filter is built, has_matches
\* starts True
Weaviate_del_items ==
    /\ WeaviateIdle
    /\ \E doc_ids \in SeqsUpTo(WIds, MaxIndexDocs) :
          /\ wDel' = [ids |-> doc_ids, has_matches |-> TRUE, calls |-> 0,
                       matched |-> Cardinality(WeaviateMatches(wObjects, doc_ids))]
          /\ wLast' = WeaviateCall("del_items", "running", doc_ids)
    /\ wpc' = "del_items"
    /\ UNCHANGED <<wColumns, wEmbeddingColumn, wProperties, wCreateClassCalls,
                   wObjects, WeaviateOthers>>

\* one batch.delete_objects query and no second one
DelItemsSingleQuery ==
    /\ wpc = "del_items"
    /\ wDel.has_matches
    /\ LET m == WeaviateMatches(wObjects, wDel.ids)
           n == IF Cardinality(m) <= MaxDeletesPerQuery THEN Cardinality(m)
                ELSE MaxDeletesPerQuery
       IN \E gone \in SUBSET m :
             /\ Cardinality(gone) = n
             /\ wObjects' = [k \in (DOMAIN wObjects) \ gone |-> wObjects[k]]
             /\ wDel' = [wDel EXCEPT !.has_matches = FALSE, !.calls = @ + 1]
    /\ UNCHANGED <<wColumns, wpc, wEmbeddingColumn, wProperties,
                   wCreateClassCalls, wLast, WeaviateOthers>>

\* _del_items, lines 173-179: one batch.delete_objects query; the backend
\* deletes matching objects, at most MaxDeletesPerQuery, and reports how many
\* objects matched
Weaviate_del_items_loop ==
    /\ wpc = "del_items"
    /\ wDel.has_matches
    /\ LET m == WeaviateMatches(wObjects, wDel.ids)
           n == IF Cardinality(m) <= MaxDeletesPerQuery THEN Cardinality(m)
                ELSE MaxDeletesPerQuery
       IN \E gone \in SUBSET m :
             /\ Cardinality(gone) = n
             /\ wObjects' = [k \in (DOMAIN wObjects) \ gone |-> wObjects[k]]
             /\ wDel' = [wDel EXCEPT !.has_matches = Cardinality(m) > 0,
                                     !.calls = @ + 1]
    /\ UNCHANGED <<wColumns, wpc, wEmbeddingColumn, wProperties,
                   wCreateClassCalls, wLast, WeaviateOthers>>

\* _del_items returns when has_matches is false; it raises nothing
Weaviate_del_items_return ==
    /\ wpc = "del_items"
    /\ ~wDel.has_matches
    /\ wpc' = "operational"
    /\ wLast' = [wLast EXCEPT !.status = "ok"]
    /\ UNCHANGED <<wColumns, wEmbeddingColumn, wProperties, wCreateClassCalls,
                   wObjects, wDel, WeaviateOthers>>

\* the caller goes on to its next call
Weaviate_return ==
    /\ wpc = "operational"
    /\ wLast.op /= "idle"
    /\ wLast' = [op |-> "idle", status |-> "ok", ids |-> <<>>, preIds |-> {}]
    /\ UNCHANGED <<wColumns, wpc, wEmbeddingColumn, wProperties,
                   wCreateClassCalls, wObjects, wDel, WeaviateOthers>>

WeaviateNext ==
    \/ Weaviate_index
    \/ Weaviate_del_items
    \/ Weaviate_del_items_loop
    \/ Weaviate_del_items_return
    \/ Weaviate_return

(***************************************************************************)
(* DocumentArray (src/docarray/array/array/array.py) and                   *)
(* DocumentArrayStacked (src/docarray/array/stacked/array_stacked.py)      *)
(*                                                                         *)
(* A document is a row: its class and the values of its fields text and    *)
(* tensor.  SubDoc subclasses Doc; Other is an unrelated document class.   *)
(***************************************************************************)
\* longest array the model builds
MaxLen == 2
\* longest iterable handed to extend, __init__ or a column setter
MaxArgs == 2

DocClasses == {"Doc", "SubDoc", "Other"}
ArrayDocTypes == {"AnyDocument", "Doc", "SubDoc"}
TextValues == {"x", "y"}
TensorValues == {"p", "q"}

\* documents of every class, for the operations that validate the class
ClassDocs == [cls : DocClasses, text : TextValues, tensor : {"p"}]
\* documents of class Doc, for the column and stacking operations
ColumnDocs == [cls : {"Doc"}, text : TextValues, tensor : TensorValues]

\* issubclass(cls, base)
IsSubclass(cls, base) == cls = base \/ (cls = "SubDoc" /\ base = "Doc")

\* a plausible slip: every document passes
ValidateOneDocAcceptsAll(document_type, doc) == TRUE

\* _validate_one_doc, lines 158-162: TRUE when the document is returned,
\* FALSE when ValueError is raised
Array_validate_one_doc(document_type, doc) ==
    ~(~IsSubclass(document_type, "AnyDocument")
      /\ ~IsSubclass(doc.cls, document_type))

\* _validate_docs consumed by a list: the documents yielded before the first
\* one that raises
RECURSIVE ValidPrefix(_, _)
ValidPrefix(document_type, docs) ==
    IF docs = <<>> \/ ~Array_validate_one_doc(document_type, Head(docs))
    THEN <<>>
    ELSE <<Head(docs)>> \o ValidPrefix(document_type, Tail(docs))

AllValid(document_type, docs) == ValidPrefix(document_type, docs) = docs

\* list.insert(i, x): the index is clamped to the list
ListInsert(data, i, x) ==
    LET k == IF i > Len(data) THEN Len(data) ELSE i
    IN SubSeq(data, 1, k) \o <<x>> \o SubSeq(data, k + 1, Len(data))

\* list.pop(i) leaves the list without position i (0-based)
ListWithout(data, i) == SubSeq(data, 1, i) \o SubSeq(data, i + 2, Len(data))

\* list.reverse()
ListReverse(data) == [i \in 1..Len(data) |-> data[Len(data) + 1 - i]]

\* the key handed to sort: the text field, "x" before "y"
SortKey(doc) == IF doc.text = "x" THEN 0 ELSE 1

\* list.sort(key=...): stable
RECURSIVE ListSort(_)
ListSort(data) ==
    IF data = <<>> THEN <<>>
    ELSE LET rest == ListSort(Tail(data))
             x == Head(data)
             before == SelectSeq(rest, LAMBDA d : SortKey(d) < SortKey(x))
             after == SelectSeq(rest, LAMBDA d : ~(SortKey(d) < SortKey(x)))
         IN before \o <<x>> \o after

ArrayCallResult(op, status, args, pre, result) ==
    [op |-> op, status |-> status, args |-> args, pre |-> pre,
     result |-> result]

\* a call that returns None or raises
ArrayCall(op, status, args, pre) ==
    ArrayCallResult(op, status, args, pre, <<>>)

ArrayIdleCall == ArrayCall("idle", "ok", <<>>, <<>>)

ArrayIdle == aLast.op = "idle"

ArrayOthers == <<qvars, svars, bvars, wvars, fvars>>

\* DocumentArray[D](): the typed class, an empty array of it
ArrayInit ==
    /\ aDocType \in ArrayDocTypes
    /\ aData = <<>>
    /\ aStacked = <<>>
    /\ aLast = ArrayIdleCall

\* DocumentArray[Doc](): the array the column operations work on
ColumnArrayInit ==
    /\ aDocType = "Doc"
    /\ aData = <<>>
    /\ aStacked = <<>>
    /\ aLast = ArrayIdleCall

ArrayFrame == UNCHANGED <<aDocType, aStacked, ArrayOthers>>

\* __init__(docs), line 132: list(self._validate_docs(docs)); a document that
\* fails validation aborts the construction
Array_init ==
    /\ ArrayIdle
    /\ \E docs \in SeqsUpTo(ClassDocs, MaxArgs) :
          IF AllValid(aDocType, docs)
          THEN /\ aData' = docs
               /\ aLast' = ArrayCall("__init__", "ok", docs, aData)
          ELSE /\ aData' = aData
               /\ aLast' = ArrayCall("__init__", "ValueError", docs, aData)
    /\ ArrayFrame

\* append(doc), line 181
Array_append(doc) ==
    IF Array_validate_one_doc(aDocType, doc)
    THEN /\ aData' = Append(aData, doc)
         /\ aLast' = ArrayCall("append", "ok", <<doc>>, aData)
    ELSE /\ aData' = aData
         /\ aLast' = ArrayCall("append", "ValueError", <<doc>>, aData)

ArrayAppendStep ==
    /\ ArrayIdle /\ Len(aData) < MaxLen
    /\ \E doc \in ClassDocs : Array_append(doc)
    /\ ArrayFrame

\* extend(docs), line 190: list.extend draws from the validating generator and
\* keeps what it drew before a document raised
Array_extend ==
    /\ ArrayIdle
    /\ \E docs \in SeqsUpTo(ClassDocs, MaxArgs) :
          /\ Len(aData) + Len(docs) <= MaxLen
          /\ aData' = aData \o ValidPrefix(aDocType, docs)
          /\ aLast' = ArrayCall("extend",
                          IF AllValid(aDocType, docs) THEN "ok" ELSE "ValueError",
                          docs, aData)
    /\ ArrayFrame

\* insert(i, doc), line 199
Array_insert ==
    /\ ArrayIdle /\ Len(aData) < MaxLen
    /\ \E i \in 0..MaxLen, doc \in ClassDocs :
          IF Array_validate_one_doc(aDocType, doc)
          THEN /\ aData' = ListInsert(aData, i, doc)
               /\ aLast' = ArrayCall("insert", "ok", <<doc>>, aData)
          ELSE /\ aData' = aData
               /\ aLast' = ArrayCall("insert", "ValueError", <<doc>>, aData)
    /\ ArrayFrame

\* pop / remove / reverse / sort, lines 43-57 and 201-204: the call is handed to
\* the list behind self._data; the source never assigns _data (it assigns
\* data), so the lookup either reaches the list or raises AttributeError
Array_delegate(op, result, list_error) ==
    \/ /\ list_error = "ok"
       /\ aData' = result
       /\ aLast' = ArrayCall(op, "ok", <<>>, aData)
    \/ /\ list_error /= "ok"
       /\ aData' = aData
       /\ aLast' = ArrayCall(op, list_error, <<>>, aData)
    \/ /\ aData' = aData
       /\ aLast' = ArrayCall(op, "AttributeError", <<>>, aData)

Array_pop ==
    /\ ArrayIdle
    /\ \E i \in 0..MaxLen :
          IF i < Len(aData)
          THEN Array_delegate("pop", ListWithout(aData, i), "ok")
          ELSE Array_delegate("pop", aData, "IndexError")
    /\ ArrayFrame

Array_remove ==
    /\ ArrayIdle
    /\ \E doc \in ClassDocs :
          IF \E i \in 1..Len(aData) : aData[i] = doc
          THEN Array_delegate("remove",
                   ListWithout(aData, (CHOOSE i \in 1..Len(aData) :
                       aData[i] = doc /\ \A j \in 1..(i - 1) : aData[j] /= doc) - 1),
                   "ok")
          ELSE Array_delegate("remove", aData, "ValueError")
    /\ ArrayFrame

Array_reverse ==
    /\ ArrayIdle
    /\ Array_delegate("reverse", ListReverse(aData), "ok")
    /\ ArrayFrame

Array_sort ==
    /\ ArrayIdle
    /\ Array_delegate("sort", ListSort(aData), "ok")
    /\ ArrayFrame

\* the caller goes on to its next call
ArrayReturn ==
    /\ ~ArrayIdle
    /\ aLast' = ArrayIdleCall
    /\ UNCHANGED <<aData, aDocType, aStacked, ArrayOthers>>

ArrayNext ==
    \/ Array_init
    \/ ArrayAppendStep
    \/ Array_extend
    \/ Array_insert
    \/ Array_pop
    \/ Array_remove
    \/ Array_reverse
    \/ Array_sort
    \/ ArrayReturn

(***************************************************************************)
(* Column access, stack() and unstack()                                    *)
(***************************************************************************)
ColumnFields == {"text", "tensor"}

FieldValues(field) == IF field = "text" THEN TextValues ELSE TensorValues

Min(a, b) == IF a < b THEN a ELSE b

\* _get_data_column, line 230: [getattr(doc, field) for doc in self]
Array_get_data_column(data, field) == [i \in 1..Len(data) |-> data[i][field]]

\* the values a caller may pass for a field: those of the declared type
\* and, for the str field, the int 1
AssignedValues(field) ==
    IF field = "text" THEN TextValues \cup {"int 1"} ELSE TensorValues

\* setattr on a document validates the value (Config.validate_assignment):
\* a value of the declared type is kept, an int given to a str field
\* becomes its decimal string
Validate_assignment(field, value) ==
    IF field = "text" /\ value = "int 1" THEN "1" ELSE value

\* the values are assigned one document late
SetDataColumnShifted(data, field, values) ==
    [i \in 1..Len(data) |->
        IF i > 1 /\ i <= Min(Len(data), Len(values))
        THEN [data[i] EXCEPT ![field] = Validate_assignment(field, values[i - 1])]
        ELSE data[i]]

\* _set_data_column, lines 244-245: zip(self, values) stops at the shorter of
\* the two, setattr on each pair
Array_set_data_column(data, field, values) ==
    [i \in 1..Len(data) |->
        IF i <= Min(Len(data), Len(values))
        THEN [data[i] EXCEPT ![field] = Validate_assignment(field, values[i])]
        ELSE data[i]]

\* Storage(docs, document_type, tensor_type): the tensor field as one batch,
\* the other fields as columnar lists
StackedStorage(docs) ==
    [tensor |-> Array_get_data_column(docs, "tensor"),
     text |-> Array_get_data_column(docs, "text")]

\* DocumentArrayStacked.__init__, lines 67-75
DocumentArrayStacked_init(docs, document_type, tensor_type) ==
    [document_type |-> document_type,
     tensor_type |-> tensor_type,
     storage |-> StackedStorage(docs)]

ColumnAppendStep ==
    /\ ArrayIdle /\ Len(aData) < MaxLen
    /\ \E doc \in ColumnDocs : Array_append(doc)
    /\ ArrayFrame

Array_get_column ==
    /\ ArrayIdle
    /\ \E field \in ColumnFields :
          aLast' = ArrayCallResult("get_column", "ok", <<>>, aData,
                                   Array_get_data_column(aData, field))
    /\ UNCHANGED <<aData, aDocType, aStacked, ArrayOthers>>

Array_set_column ==
    /\ ArrayIdle
    /\ \E field \in ColumnFields :
          \E values \in SeqsUpTo(AssignedValues(field), MaxArgs) :
             /\ aData' = Array_set_data_column(aData, field, values)
             /\ aLast' = [op |-> "set_column", status |-> "ok", args |-> values,
                          pre |-> aData, result |-> <<>>, field |-> field]
    /\ ArrayFrame

\* stack(), lines 258-262: DocumentArrayStacked[document_type](self, ...)
Array_stack ==
    /\ ArrayIdle
    /\ aStacked' = DocumentArrayStacked_init(aData, aDocType, "NdArray")
    /\ aLast' = ArrayCall("stack", "ok", <<>>, aData)
    /\ UNCHANGED <<aData, aDocType, ArrayOthers>>

\* DocumentArrayStacked.unstack(), lines 173-178: raise NotImplementedError
DocumentArrayStacked_unstack ==
    /\ ArrayIdle
    /\ aStacked /= <<>>
    /\ aLast' = ArrayCall("unstack", "NotImplementedError", <<>>, aData)
    /\ UNCHANGED <<aData, aDocType, aStacked, ArrayOthers>>

\* the keys of del stacked[key]: an int, a slice, a list of indices or a
\* boolean mask, each with the positions it selects
StackedKeys ==
    [kind : {"int"}, positions : {{i} : i \in 0..(MaxLen - 1)}]
        \cup [kind : {"slice", "list", "mask"},
              positions : SUBSET (0..(MaxLen - 1))]

UNSTACK_GUIDANCE == "Please unstack before doing the deletion"

\* a deletion that goes through for an int key
DelitemDropsIntKey(stacked, key) ==
    IF key.kind = "int"
    THEN [status |-> "ok", message |-> "",
          stacked |-> [stacked EXCEPT !.storage =
              [f \in DOMAIN stacked.storage |->
                  SelectSeq(stacked.storage[f], LAMBDA v : FALSE)]]]
    ELSE [status |-> "NotImplementedError", message |-> UNSTACK_GUIDANCE,
          stacked |-> stacked]

\* DocumentArrayStacked.__delitem__, lines 147-154: raise NotImplementedError
\* whatever the key; the outcome and the stacked array afterwards
DocumentArrayStacked_delitem(stacked, key) ==
    [status |-> "NotImplementedError", message |-> UNSTACK_GUIDANCE,
     stacked |-> stacked]

DocumentArrayStacked_delitem_step ==
    /\ ArrayIdle
    /\ aStacked /= <<>>
    /\ \E key \in StackedKeys :
          LET out == DocumentArrayStacked_delitem(aStacked, key)
          IN /\ aStacked' = out.stacked
             /\ aLast' = ArrayCallResult("__delitem__", out.status, <<key>>,
                                         aStacked, out.message)
    /\ UNCHANGED <<aData, aDocType, ArrayOthers>>

ColumnsNext ==
    \/ ColumnAppendStep
    \/ Array_get_column
    \/ Array_set_column
    \/ Array_stack
    \/ DocumentArrayStacked_unstack
    \/ DocumentArrayStacked_delitem_step
    \/ ArrayReturn

(***************************************************************************)
(* Stateless operations: each call leaves its arguments and its result in  *)
(* fCall; nothing else is kept between two calls.                          *)
(***************************************************************************)
NoCall == [op |-> "none"]

CallInit == fCall = NoCall

CallIdle == fCall = NoCall

CallOthers == <<qvars, svars, bvars, wvars, avars>>

\* the caller takes the result
CallReturn ==
    /\ ~CallIdle
    /\ fCall' = NoCall
    /\ UNCHANGED CallOthers

(***************************************************************************)
(* Parametrized tensor types (src/docarray/typing/tensor/abstract_tensor.py)*)
(*                                                                         *)
(* A shape is a sequence of dimensions.  A fixed dimension is a positive   *)
(* integer; a named dimension ('x', 'y') is written as a negative integer, *)
(* -1 for 'x' and -2 for 'y'.                                              *)
(***************************************************************************)
\* most axes of a tensor or of a declared shape
MaxRank == 2
\* largest size of one axis
MaxDim == 2

Dims == 1..MaxDim
DimNames == {-1, -2}
TensorShapes == SeqsUpTo(Dims, MaxRank)
ShapeSpecs == SeqsUpTo(Dims \cup DimNames, MaxRank)

\* what is written between the brackets of T[...]: one int, a tuple of
\* dimensions, or something that is not iterable
GetItems ==
    [kind : {"int"}, value : Dims]
        \cup [kind : {"tuple"}, value : ShapeSpecs]
        \cup [kind : {"other"}, value : {0}]

\* the dimensions survive only when they are ints
ValidateGetitemIntsOnly(item) ==
    CASE item.kind = "int" -> [status |-> "ok", shape |-> <<item.value>>]
      [] item.kind = "tuple" ->
            [status |-> "ok",
             shape |-> SelectSeq(item.value, LAMBDA d : d > 0)]
      [] OTHER -> [status |-> "TypeError", shape |-> <<>>]

\* __docarray_validate_getitem__, lines 113-119: an int becomes a 1-tuple,
\* anything iterable becomes a tuple as it is, the rest raises TypeError
AbstractTensor_validate_getitem(item) ==
    CASE item.kind = "int" -> [status |-> "ok", shape |-> <<item.value>>]
      [] item.kind = "tuple" -> [status |-> "ok", shape |-> item.value]
      [] OTHER -> [status |-> "TypeError", shape |-> <<>>]

\* number of elements of a tensor of the given shape
RECURSIVE ElementCount(_)
ElementCount(shape) ==
    IF shape = <<>> THEN 1 ELSE Head(shape) * ElementCount(Tail(shape))

\* the concrete __docarray_validate_shape__(t, shape): equal shapes pass; a
\* shape with named dimensions is matched axis by axis, a name bound by its
\* first occurrence; otherwise t is reshaped when the element counts agree
AbstractTensor_validate_shape(t, shape) ==
    IF t.shape = shape THEN [status |-> "ok", tensor |-> t]
    ELSE IF \E i \in 1..Len(shape) : shape[i] \in DimNames
    THEN IF /\ Len(t.shape) = Len(shape)
            /\ \A i \in 1..Len(shape) :
                  /\ shape[i] \in Dims => t.shape[i] = shape[i]
                  /\ \A j \in 1..(i - 1) :
                        (shape[i] \in DimNames /\ shape[j] = shape[i])
                            => t.shape[i] = t.shape[j]
         THEN [status |-> "ok", tensor |-> t]
         ELSE [status |-> "ValueError", tensor |-> t]
    ELSE IF ElementCount(t.shape) = ElementCount(shape)
         THEN [status |-> "ok", tensor |-> [t EXCEPT !.shape = shape]]
         ELSE [status |-> "ValueError", tensor |-> t]

\* the shape check is left out
ParametrizedValidateNoShapeCheck(value, target_shape) ==
    [status |-> "ok", tensor |-> value]

\* _ParametrizedTensor.validate, lines 131-141: super().validate(value, ...)
\* and then __docarray_validate_shape__(t, __docarray_target_shape__)
ParametrizedTensor_validate(value, target_shape) ==
    AbstractTensor_validate_shape(value, target_shape)

TensorCall(op, item, shape, value, status, result) ==
    [op |-> op, item |-> item, shape |-> shape, value |-> value,
     status |-> status, result |-> result]

\* parse_obj_as(T[item], value): __class_getitem__ (lines 148-150) makes the
\* parametrized type, whose validate is then applied to the value
Tensor_class_getitem_validate ==
    /\ CallIdle
    /\ \E item \in GetItems, value_shape \in TensorShapes :
          LET target == AbstractTensor_validate_getitem(item)
              value == [shape |-> value_shape]
              out == ParametrizedTensor_validate(value, target.shape)
          IN fCall' =
                IF target.status /= "ok"
                THEN TensorCall("validate", item, target.shape, value,
                                target.status, value)
                ELSE TensorCall("validate", item, target.shape, value,
                                out.status, out.tensor)
    /\ UNCHANGED CallOthers

\* T[...] evaluations told apart: every evaluation makes a new class
MaxEvals == 2

TensorBases == {"NdArray", "TorchTensor"}

\* the classes: AbstractTensor, the tensor base classes, and the parametrized
\* classes, one per base, target shape and evaluation
AbstractTensorClass ==
    [kind |-> "abstract", base |-> "AbstractTensor", target |-> <<>>, eval |-> 0]

BaseClass(base) == [kind |-> "base", base |-> base, target |-> <<>>, eval |-> 0]

\* _docarray_create_parametrized_type, lines 122-146
ParametrizedClass(base, shape, eval) ==
    [kind |-> "parametrized", base |-> base, target |-> shape, eval |-> eval]

TensorClasses ==
    {AbstractTensorClass} \cup {BaseClass(b) : b \in TensorBases}
        \cup {ParametrizedClass(b, s, e) :
                 b \in TensorBases, s \in TensorShapes, e \in 1..MaxEvals}

\* cls.mro(), without the entries every class shares (Generic, object)
Mro(cls) ==
    CASE cls.kind = "parametrized" ->
            <<cls, BaseClass(cls.base), AbstractTensorClass>>
      [] cls.kind = "base" -> <<cls, AbstractTensorClass>>
      [] OTHER -> <<cls>>

\* type.__subclasscheck__: cls is one of the classes subclass derives from
TypeSubclasscheck(cls, subclass) == cls \in Range(Mro(subclass))

\* _ParametrizedMeta.__subclasscheck__, lines 33-48; getattr(...,
\* '__docarray_target_shape__', False) is False for a class that is not
\* parametrized, and an empty tuple is as false as False
ParametrizedMeta_subclasscheck(cls, subclass) ==
    LET is_tensor == AbstractTensorClass \in Range(Mro(subclass))
        same_parents == is_tensor /\ Tail(Mro(cls)) = Tail(Mro(subclass))
        subclass_truthy ==
            subclass.kind = "parametrized" /\ subclass.target /= <<>>
        self_truthy == cls.kind = "parametrized" /\ cls.target /= <<>>
        same_shape ==
            /\ same_parents
            /\ subclass_truthy
            /\ self_truthy
            /\ subclass.target = cls.target
    IN IF same_shape THEN TRUE ELSE TypeSubclasscheck(cls, subclass)

\* issubclass(subclass, cls): the metaclass of cls decides
Issubclass(subclass, cls) ==
    IF cls.kind = "parametrized"
    THEN ParametrizedMeta_subclasscheck(cls, subclass)
    ELSE TypeSubclasscheck(cls, subclass)

\* _ParametrizedMeta.__instancecheck__, lines 50-54, for an instance that is a
\* tensor: any(issubclass(candidate, cls) for candidate in type(instance).mro())
ParametrizedMeta_instancecheck(cls, instance) ==
    \E i \in 1..Len(Mro(instance.type)) : Issubclass(Mro(instance.type)[i], cls)

\* issubclass(subclass, cls)
Tensor_issubclass ==
    /\ CallIdle
    /\ \E subclass \in TensorClasses, cls \in TensorClasses :
          fCall' = [op |-> "issubclass", subclass |-> subclass, cls |-> cls,
                    result |-> Issubclass(subclass, cls)]
    /\ UNCHANGED CallOthers

\* t = parse_obj_as(T[s], value); isinstance(t, cls).  The validated tensor is
\* a view of the class it was validated as (from_ndarray: value.view(cls))
Tensor_isinstance ==
    /\ CallIdle
    /\ \E validated_as \in TensorClasses, cls \in TensorClasses :
          /\ validated_as.kind = "parametrized"
          /\ fCall' = [op |-> "isinstance",
                       instance |-> [shape |-> validated_as.target,
                                     type |-> validated_as],
                       cls |-> cls,
                       result |->
                          IF cls.kind = "parametrized"
                          THEN ParametrizedMeta_instancecheck(
                                   cls, [shape |-> validated_as.target,
                                         type |-> validated_as])
                          ELSE TypeSubclasscheck(cls, validated_as)]
    /\ UNCHANGED CallOthers

(***************************************************************************)
(* Tensor <-> NdArrayProto (src/docarray/typing/tensor/tensor.py)          *)
(*                                                                         *)
(* A tensor is its shape, its dtype (dtype.str) and its elements in C      *)
(* order, each element the bytes numpy stores for it.                      *)
(***************************************************************************)
DTypes == {"|u1", "<i2", "<f8"}

ItemSize(dtype) ==
    CASE dtype = "|u1" -> 1
      [] dtype = "<i2" -> 2
      [] OTHER -> 8

\* the little-endian bytes of the element values 0 and 1
ElementBytes(dtype, v) ==
    CASE dtype = "|u1" -> <<v>>
      [] dtype = "<i2" -> <<v, 0>>
      [] OTHER -> IF v = 0 THEN <<0, 0, 0, 0, 0, 0, 0, 0>>
                  ELSE <<0, 0, 0, 0, 0, 0, 240, 63>>

\* shapes with zero or more axes, an axis of zero or more elements
ProtoShapes == SeqsUpTo(0..MaxDim, MaxRank)

\* the tensors written: all zeros, or zeros and ones in turn
ProtoTensors ==
    {[shape |-> shape, dtype |-> dtype,
      data |-> [i \in 1..ElementCount(shape) |->
                   ElementBytes(dtype, IF ramp THEN i % 2 ELSE 0)]] :
        shape \in ProtoShapes, dtype \in DTypes, ramp \in BOOLEAN}

RECURSIVE Flatten(_)
Flatten(seqs) == IF seqs = <<>> THEN <<>> ELSE Head(seqs) \o Flatten(Tail(seqs))

\* _flush_tensor_to_proto, lines 110-115: buffer = value.tobytes(),
\* shape = list(value.shape), dtype = value.dtype.str
Tensor_flush_tensor_to_proto(value) ==
    [buffer |-> Flatten(value.data), shape |-> value.shape,
     dtype |-> value.dtype]

\* _read_from_proto, lines 94-108: np.frombuffer(buffer, dtype).reshape(shape)
\* when the buffer is not empty, np.zeros(shape) (float64) when only the shape
\* is, ValueError when neither is
Tensor_read_from_proto(pb_msg) ==
    IF pb_msg.buffer /= <<>>
    THEN LET n == ItemSize(pb_msg.dtype)
         IN [status |-> "ok",
             tensor |-> [shape |-> pb_msg.shape, dtype |-> pb_msg.dtype,
                         data |-> [i \in 1..(Len(pb_msg.buffer) \div n) |->
                             SubSeq(pb_msg.buffer, (i - 1) * n + 1, i * n)]]]
    ELSE IF Len(pb_msg.shape) > 0
    THEN [status |-> "ok",
          tensor |-> [shape |-> pb_msg.shape, dtype |-> "<f8",
                      data |-> [i \in 1..ElementCount(pb_msg.shape) |->
                                   ElementBytes("<f8", 0)]]]
    ELSE [status |-> "ValueError", tensor |-> <<>>]

\* _read_from_proto of the message _flush_tensor_to_proto wrote
Tensor_proto_roundtrip ==
    /\ CallIdle
    /\ \E value \in ProtoTensors :
          LET out == Tensor_read_from_proto(Tensor_flush_tensor_to_proto(value))
          IN fCall' = [op |-> "proto_roundtrip", value |-> value,
                       status |-> out.status, result |-> out.tensor]
    /\ UNCHANGED CallOthers

TensorNext ==
    \/ Tensor_class_getitem_validate
    \/ Tensor_issubclass
    \/ Tensor_isinstance
    \/ Tensor_proto_roundtrip
    \/ CallReturn

(***************************************************************************)
(* NumpyCompBackend.Retrieval.top_k                                        *)
(* (src/docarray/computation/numpy_backend.py)                             *)
(*                                                                         *)
(* Indices are 1-based here, 0-based in numpy.                             *)
(***************************************************************************)
\* longest row
MaxRowLen == 3
TopKValues == {0, 1, 2}
TopKDTypes == {"float64", "uint8"}
\* row counts of the 2-D inputs
TopKRowCounts == {1, 2}

\* 1-D inputs and 2-D inputs, the rows of a 2-D input of one length
TopKInputs ==
    {[ndim |-> 1, rows |-> <<row>>] : row \in SeqsUpTo(TopKValues, MaxRowLen)}
        \cup {[ndim |-> 2, rows |-> rows] :
                 rows \in UNION {[1..m -> [1..n -> TopKValues]] :
                                     m \in TopKRowCounts, n \in 0..MaxRowLen}}

\* numpy's unary minus: exact for floats, modulo 2^8 for uint8
Negative(dtype, v) == IF dtype = "uint8" THEN (256 - v) % 256 ELSE 0 - v

\* the index sequences of k distinct positions of a row
IndexSeqs(n, k) ==
    {p \in [1..k -> 1..n] : \A i, j \in 1..k : p[i] = p[j] => i = j}

\* row.argsort(): an order of all positions with ascending values
Argsorts(row) ==
    {p \in IndexSeqs(Len(row), Len(row)) :
        \A i \in 1..(Len(row) - 1) : row[p[i]] <= row[p[i + 1]]}

\* row.argpartition(kth=k)[:k]: k positions, in any order, none holding a
\* value above a value left out
Argpartitions(row, k) ==
    {p \in IndexSeqs(Len(row), k) :
        \A i \in 1..k : \A j \in (1..Len(row)) \ Range(p) : row[p[i]] <= row[j]}

\* np.take_along_axis(row, idx)
Take_along(row, idx) == [i \in 1..Len(idx) |-> row[idx[i]]]

\* the partitioned slice is returned as it is, without the sort of lines 86-88
TopKRowUnsortedSlice(row, k, descending, dtype) ==
    LET signed == IF descending
                  THEN [i \in 1..Len(row) |-> Negative(dtype, row[i])]
                  ELSE row
        unsign(vals) == IF descending
                        THEN [i \in 1..Len(vals) |-> Negative(dtype, vals[i])]
                        ELSE vals
    IN IF k >= Len(row)
       THEN {[values |-> unsign(Take_along(signed, idx)), idx |-> idx] :
                idx \in Argsorts(signed)}
       ELSE {[values |-> unsign(Take_along(signed, idx_ps)), idx |-> idx_ps] :
                idx_ps \in Argpartitions(signed, k)}

\* lines 77-93 on one row: every (values, idx) the two sorts can produce
TopKRow(row, k, descending, dtype) ==
    LET signed == IF descending
                  THEN [i \in 1..Len(row) |-> Negative(dtype, row[i])]
                  ELSE row
        unsign(vals) == IF descending
                        THEN [i \in 1..Len(vals) |-> Negative(dtype, vals[i])]
                        ELSE vals
    IN IF k >= Len(row)
       THEN {[values |-> unsign(Take_along(signed, idx)), idx |-> idx] :
                idx \in Argsorts(signed)}
       ELSE UNION {
                LET part == Take_along(signed, idx_ps)
                IN {[values |-> unsign(Take_along(part, idx_fs)),
                     idx |-> Take_along(idx_ps, idx_fs)] :
                       idx_fs \in Argsorts(part)} :
                idx_ps \in Argpartitions(signed, k)}

\* the results of all rows, each row's result chosen on its own
RECURSIVE TopKRows(_, _, _, _)
TopKRows(rows, k, descending, dtype) ==
    IF rows = <<>>
    THEN {<<>>}
    ELSE {<<first>> \o rest :
             first \in TopKRow(Head(rows), k, descending, dtype),
             rest \in TopKRows(Tail(rows), k, descending, dtype)}

\* top_k(values, k, descending): a 1-D input is one row (lines 74-75); the
\* result has one (values, idx) pair per row
NumpyCompBackend_top_k ==
    /\ CallIdle
    /\ \E input \in TopKInputs, k \in 0..(MaxRowLen + 1),
          descending \in BOOLEAN, dtype \in TopKDTypes :
          \E result \in TopKRows(input.rows, k, descending, dtype) :
             fCall' = [op |-> "top_k", values |-> input, k |-> k,
                       descending |-> descending, dtype |-> dtype,
                       result |-> result]
    /\ UNCHANGED CallOthers

TopKNext ==
    \/ NumpyCompBackend_top_k
    \/ CallReturn

(***************************************************************************)
(* BaseDocument.update (src/docarray/base_document/document.py)            *)
(*                                                                         *)
(* Documents of the docstring's schema: id: ID, content: str,              *)
(* title: Optional[str], tags_: List.  None is the string "None".          *)
(***************************************************************************)
DocumentTypes == {"MyDocument", "OtherDocument"}
DocumentFields == {"id", "content", "title", "tags_"}
Documents ==
    [cls: DocumentTypes, id: {"id1", "id2"}, content: {"", "old", "new"},
     title: {"None", "Title"}, tags_: {<<>>, <<"python">>, <<"docarray">>}]

FORBIDDEN_FIELDS_TO_UPDATE == {"ID"}

\* get_origin(field_type) is list
IsListField(field_name) == field_name = "tags_"

\* `if v:` on a field that is no container
FieldTruthy(v) == v /= "" /\ v /= "None"

\* _group_fields(doc).simple_non_empty_fields
Simple_non_empty_fields(doc) ==
    {field_name \in DocumentFields \ FORBIDDEN_FIELDS_TO_UPDATE :
        /\ ~IsListField(field_name)
        /\ FieldTruthy(doc[field_name])}

\* _group_fields(doc).list_fields
List_fields(doc) ==
    {field_name \in DocumentFields \ FORBIDDEN_FIELDS_TO_UPDATE :
        IsListField(field_name)}

\* self after self.update(other), other of the type of self (lines 161-182)
BaseDocument_update(self, other) ==
    [field_name \in DocumentFields \cup {"cls"} |->
        IF field_name \in Simple_non_empty_fields(other)
        THEN other[field_name]
        ELSE IF field_name \in List_fields(self) \cup List_fields(other)
        THEN self[field_name] \o other[field_name]
        ELSE self[field_name]]

\* doc1.update(doc2): documents of different types raise before any change
BaseDocument_update_step ==
    /\ CallIdle
    /\ \E self \in Documents, other \in Documents :
          fCall' = IF self.cls /= other.cls
                   THEN [op |-> "update", status |-> "Exception", self |-> self,
                         other |-> other, result |-> self]
                   ELSE [op |-> "update", status |-> "ok", self |-> self,
                         other |-> other,
                         result |-> BaseDocument_update(self, other)]
    /\ UNCHANGED CallOthers

DocumentNext ==
    \/ BaseDocument_update_step
    \/ CallReturn

(***************************************************************************)
(* traverse_flat (src/docarray/array/abstract_array.py _traverse and       *)
(* _flatten_one_level, src/docarray/array/array/array.py traverse_flat)    *)
(*                                                                         *)
(* The documents are those of the fixture of test_traverse.py: an array    *)
(* of MultiModalDoc, each with mm_da: DocumentArray[SubDoc], each SubDoc   *)
(* with sub_da: DocumentArray[SubSubDoc].  Every node carries its position *)
(* `at`, so that the order of a result can be read.  mm_nested is a list   *)
(* of two lists.  An access path is the sequence of the attribute names    *)
(* and separators of the string.                                           *)
(***************************************************************************)
SubCounts == {0, 1, 2}

Leaf(at, name) == [kind |-> "leaf", at |-> at, name |-> name]
NodeList(items) == [kind |-> "list", items |-> items]
DocNode(at, attrs) == [kind |-> "doc", at |-> at, attrs |-> attrs]

SubSubDoc(at) ==
    DocNode(at, [name \in {"sub_sub_text"} |-> Leaf(at, name)])

SubDoc(at, p) ==
    DocNode(at, [name \in {"sub_text", "sub_da"} |->
        IF name = "sub_text" THEN Leaf(at, name)
        ELSE NodeList([l \in 1..p |-> SubSubDoc(Append(at, l))])])

MultiModalDoc(at, sub_counts) ==
    DocNode(at, [name \in {"mm_text", "mm_tensor", "mm_nested", "mm_da"} |->
        CASE name = "mm_da" ->
                 NodeList([j \in 1..Len(sub_counts) |->
                              SubDoc(Append(at, j), sub_counts[j])])
          [] name = "mm_nested" ->
                 NodeList(<<NodeList(<<Leaf(at, "a"), Leaf(at, "b")>>),
                            NodeList(<<Leaf(at, "c")>>)>>)
          [] OTHER -> Leaf(at, name)])

\* for each document the number of sub-sub-documents of each sub-document
TraverseShapes ==
    UNION {[1..n -> UNION {[1..m -> SubCounts] : m \in SubCounts}] :
              n \in 0..MaxLen}

TraverseArray(shape) ==
    NodeList([i \in 1..Len(shape) |-> MultiModalDoc(<<i>>, shape[i])])

AccessPaths ==
    {<<>>, <<"mm_text">>, <<"mm_tensor">>, <<"mm_nested">>, <<"mm_da">>,
     <<"mm_da", "__", "sub_text">>, <<"mm_da", "__", "sub_da">>,
     <<"mm_da", "__", "sub_da", "__", "sub_sub_text">>,
     <<"mm_da", ".", "sub_da">>, <<"mm_da", "__", "sub_db">>}

\* access_path.partition('__'): the part before the first separator and the
\* part after it
Partition(access_path) ==
    IF \E i \in 1..Len(access_path) : access_path[i] = "__"
    THEN LET i == CHOOSE i \in 1..Len(access_path) :
                      /\ access_path[i] = "__"
                      /\ \A j \in 1..(i - 1) : access_path[j] /= "__"
         IN [curr_attr |-> SubSeq(access_path, 1, i - 1),
             path_attrs |-> SubSeq(access_path, i + 1, Len(access_path))]
    ELSE [curr_attr |-> access_path, path_attrs |-> <<>>]

\* hasattr(node, curr_attr): the name is one attribute name of a document
HasAttr(node, curr_attr) ==
    /\ node.kind = "doc"
    /\ Len(curr_attr) = 1
    /\ curr_attr[1] \in DOMAIN node.attrs

\* list(_traverse(node, access_path)) raises AttributeError
RECURSIVE TraverseRaises(_, _)
TraverseRaises(node, access_path) ==
    IF access_path = <<>>
    THEN FALSE
    ELSE LET part == Partition(access_path)
         IN IF node.kind = "list"
            THEN \E i \in 1..Len(node.items) :
                    \/ ~HasAttr(node.items[i], part.curr_attr)
                    \/ TraverseRaises(node.items[i].attrs[part.curr_attr[1]],
                                      part.path_attrs)
            ELSE \/ ~HasAttr(node, part.curr_attr)
                 \/ TraverseRaises(node.attrs[part.curr_attr[1]], part.path_attrs)

\* the flattened list is returned at every level
RECURSIVE TraverseFlattensEveryLevel(_, _)
TraverseFlattensEveryLevel(node, access_path) ==
    IF access_path = <<>>
    THEN IF node.kind = "list" THEN node.items ELSE <<node>>
    ELSE LET part == Partition(access_path)
         IN IF node.kind = "list"
            THEN Flatten([i \in 1..Len(node.items) |->
                     TraverseFlattensEveryLevel(
                         node.items[i].attrs[part.curr_attr[1]], part.path_attrs)])
            ELSE TraverseFlattensEveryLevel(node.attrs[part.curr_attr[1]],
                                            part.path_attrs)

\* list(_traverse(node, access_path)) when nothing raises
RECURSIVE Traverse(_, _)
Traverse(node, access_path) ==
    IF access_path = <<>>
    THEN <<node>>
    ELSE LET part == Partition(access_path)
         IN IF node.kind = "list"
            THEN Flatten([i \in 1..Len(node.items) |->
                     Traverse(node.items[i].attrs[part.curr_attr[1]],
                              part.path_attrs)])
            ELSE Traverse(node.attrs[part.curr_attr[1]], part.path_attrs)

\* _flatten_one_level(sequence): decided on the first element alone
Flatten_one_level(sequence) ==
    IF Len(sequence) = 0 \/ sequence[1].kind /= "list"
    THEN sequence
    ELSE Flatten([i \in 1..Len(sequence) |-> sequence[i].items])

\* da.traverse_flat(access_path)
DocumentArray_traverse_flat ==
    /\ CallIdle
    /\ \E shape \in TraverseShapes, access_path \in AccessPaths :
          LET da == TraverseArray(shape)
          IN fCall' = IF TraverseRaises(da, access_path)
                      THEN [op |-> "traverse_flat", status |-> "AttributeError",
                            shape |-> shape, access_path |-> access_path,
                            result |-> <<>>]
                      ELSE [op |-> "traverse_flat", status |-> "ok",
                            shape |-> shape, access_path |-> access_path,
                            result |-> Flatten_one_level(Traverse(da, access_path))]
    /\ UNCHANGED CallOthers

TraverseNext ==
    \/ DocumentArray_traverse_flat
    \/ CallReturn

(***************************************************************************)
(* AnyDocArray._batch (src/docarray/array/abstract_array.py)               *)
(***************************************************************************)
\* most documents of a batched array
MaxBatchDocs == 4

BatchArrays == SeqsUpTo(TextValues, MaxBatchDocs)

\* random.shuffle(indices): any order of the indices 0..N-1
Shuffles(N) ==
    {p \in [1..N -> 0..(N - 1)] : \A i, j \in 1..N : p[i] = p[j] => i = j}

\* indices[lo:hi]
Slice(indices, lo, hi) == SubSeq(indices, lo + 1, Min(hi, Len(indices)))

\* self[indices]: the array of the documents at the indices, in their order
IndexingSequenceMixin_getitem(data, indices) ==
    [k \in 1..Len(indices) |-> data[indices[k] + 1]]

\* the last, shorter batch is dropped
BatchIndicesFloor(N, batch_size, indices) ==
    LET n_batches == N \div batch_size
    IN [i \in 1..n_batches |->
           Slice(indices, (i - 1) * batch_size, i * batch_size)]

\* lines 297-308: the index lists of the batches, in yield order
BatchIndices(N, batch_size, indices) ==
    LET n_batches == (N + batch_size - 1) \div batch_size
    IN [i \in 1..n_batches |->
           Slice(indices, (i - 1) * batch_size, i * batch_size)]

\* list(da._batch(batch_size, shuffle)); the ValueError of lines 292-295 is
\* raised when the first batch is asked for
AnyDocArray_batch ==
    /\ CallIdle
    /\ \E data \in BatchArrays, batch_size \in 0..(MaxBatchDocs + 1),
          shuffle \in BOOLEAN :
          IF batch_size <= 0
          THEN fCall' = [op |-> "_batch", status |-> "ValueError", data |-> data,
                         batch_size |-> batch_size, shuffle |-> shuffle,
                         index_batches |-> <<>>, batches |-> <<>>]
          ELSE \E indices \in IF shuffle THEN Shuffles(Len(data))
                              ELSE {[i \in 1..Len(data) |-> i - 1]} :
                  LET index_batches == BatchIndices(Len(data), batch_size, indices)
                  IN fCall' = [op |-> "_batch", status |-> "ok", data |-> data,
                               batch_size |-> batch_size, shuffle |-> shuffle,
                               index_batches |-> index_batches,
                               batches |->
                                   [i \in 1..Len(index_batches) |->
                                       IndexingSequenceMixin_getitem(
                                           data, index_batches[i])]]
    /\ UNCHANGED CallOthers

BatchNext ==
    \/ AnyDocArray_batch
    \/ CallReturn

(***************************************************************************)
(* apply / apply_batch (docarray/utils/apply.py, exercised by              *)
(* src/tests/units/util/test_apply.py)                                     *)
(*                                                                         *)
(* The pool is given the documents (apply) or the batches (apply_batch)    *)
(* one after the other; the function loads a document, which is written    *)
(* back in place.                                                          *)
(***************************************************************************)
ApplyBackends == {"thread", "process"}
\* a module-level function, a lambda, a function defined inside another
ApplyFuncs == {"module", "lambda", "local"}
ApplyBatchSizes == {1, 2}

\* what func does to a document
Loaded(doc) == <<"loaded", doc>>

\* only a lambda is refused
ApplyRefusesLambdaOnly(func, backend) ==
    backend = "process" /\ func = "lambda"

\* the function cannot be loaded in a worker process
Apply_refuses(func, backend) ==
    backend = "process" /\ func \in {"lambda", "local"}

\* apply(da, func, backend) and apply_batch(da, func, batch_size, backend):
\* the check, before anything is handed to the pool
Apply_call ==
    /\ CallIdle
    /\ \E da \in BatchArrays, func \in ApplyFuncs, backend \in ApplyBackends,
          batch_size \in ApplyBatchSizes :
          fCall' = [op |-> IF batch_size = 1 THEN "apply" ELSE "apply_batch",
                    status |-> IF Apply_refuses(func, backend)
                               THEN "ValueError" ELSE "running",
                    pre |-> da, data |-> da, func |-> func,
                    backend |-> backend, batch_size |-> batch_size,
                    handed |-> 0]
    /\ UNCHANGED CallOthers

\* the next document or batch is handed to a worker and its result written
\* back
Apply_dispatch ==
    /\ ~CallIdle
    /\ fCall.op \in {"apply", "apply_batch"}
    /\ fCall.status = "running"
    /\ fCall.handed < Len(fCall.data)
    /\ LET upto == Min(fCall.handed + fCall.batch_size, Len(fCall.data))
       IN fCall' = [fCall EXCEPT
                       !.handed = upto,
                       !.data = [i \in 1..Len(fCall.data) |->
                                    IF i > fCall.handed /\ i <= upto
                                    THEN Loaded(fCall.data[i])
                                    ELSE fCall.data[i]]]
    /\ UNCHANGED CallOthers

\* everything has been handed out and written back
Apply_done ==
    /\ ~CallIdle
    /\ fCall.op \in {"apply", "apply_batch"}
    /\ fCall.status = "running"
    /\ fCall.handed = Len(fCall.data)
    /\ fCall' = [fCall EXCEPT !.status = "ok"]
    /\ UNCHANGED CallOthers

\* the call returns or the error reaches the caller
Apply_return ==
    /\ ~CallIdle
    /\ fCall.op \in {"apply", "apply_batch"}
    /\ fCall.status /= "running"
    /\ fCall' = NoCall
    /\ UNCHANGED CallOthers

ApplyNext ==
    \/ Apply_call
    \/ Apply_dispatch
    \/ Apply_done
    \/ Apply_return

(***************************************************************************)
(* Column-kind resolution: python_type_to_db_type of the two indexes       *)
(* (src/docarray/index/backends/qdrant.py,                                 *)
(* src/docarray/doc_index/backends/weaviate_doc_index.py)                  *)
(***************************************************************************)
\* the classes a field may be declared with; torch.Tensor and TorchTensor
\* exist only where torch is imported
FieldClasses(torch_imported) ==
    {"np.ndarray", "NdArray", "AbstractTensor", "ID", "str", "ImageUrl", "int",
     "float", "bool", "list", "dict"}
        \cup (IF torch_imported THEN {"torch.Tensor", "TorchTensor"} ELSE {})

\* the classes a class derives from, itself included
Bases(cls) ==
    CASE cls = "NdArray" -> {"NdArray", "np.ndarray", "AbstractTensor"}
      [] cls = "TorchTensor" -> {"TorchTensor", "torch.Tensor", "AbstractTensor"}
      [] cls = "ID" -> {"ID", "str"}
      [] cls = "ImageUrl" -> {"ImageUrl", "str"}
      [] cls = "bool" -> {"bool", "int"}
      [] OTHER -> {cls}

\* QDRANT_PY_VEC_TYPES, lines 36-39
QDRANT_PY_VEC_TYPES(torch_imported) ==
    {"np.ndarray", "AbstractTensor"}
        \cup (IF torch_imported THEN {"torch.Tensor"} ELSE {})

\* the ID check comes first
QdrantKindIdFirst(python_type, torch_imported) ==
    IF "str" \in Bases(python_type) THEN "id"
    ELSE IF \E vector_type \in QDRANT_PY_VEC_TYPES(torch_imported) :
                vector_type \in Bases(python_type)
    THEN "vector"
    ELSE "payload"

\* QdrantDocumentIndex.python_type_to_db_type, lines 124-132
Qdrant_python_type_to_db_type(python_type, torch_imported) ==
    IF \E vector_type \in QDRANT_PY_VEC_TYPES(torch_imported) :
           vector_type \in Bases(python_type)
    THEN "vector"
    ELSE IF "ID" \in Bases(python_type) THEN "id"
    ELSE "payload"

\* the columns of a schema are resolved field by field, by either index
Index_python_types_to_db_types ==
    /\ CallIdle
    /\ \E torch_imported \in BOOLEAN, backend \in {"qdrant", "weaviate"} :
          \E python_types \in SeqsUpTo(FieldClasses(torch_imported), MaxCols) :
             fCall' = [op |-> "python_type_to_db_type", backend |-> backend,
                       torch_imported |-> torch_imported,
                       python_types |-> python_types,
                       db_types |->
                           [i \in 1..Len(python_types) |->
                               IF backend = "qdrant"
                               THEN Qdrant_python_type_to_db_type(
                                        python_types[i], torch_imported)
                               ELSE Weaviate_python_type_to_db_type(
                                        python_types[i])]]
    /\ UNCHANGED CallOthers

KindNext ==
    \/ Index_python_types_to_db_types
    \/ CallReturn

(***************************************************************************)
(* Concurrent _del_items calls on one QdrantDocumentIndex                  *)
(* (src/docarray/index/backends/qdrant.py, lines 149-161)                  *)
(*                                                                         *)
(* _del_items takes no lock: the scroll of _get_items and the delete are   *)
(* two requests to the server, and another thread's requests may fall      *)
(* between them.  fCall holds the position of every thread.                *)
(***************************************************************************)
Threads == {1, 2}

ThreadIdle == [pc |-> "idle", ids |-> <<>>, all_persisted |-> TRUE,
               deleted |-> {}]

\* the collection holds every document id; the threads have not started
InitConcurrent ==
    /\ qPoints = QdrantUpsert(<<>>,
                     [i \in 1..MaxIds |-> Qdrant_build_point_from_row(i)])
    /\ qLast = [op |-> "index", ids |-> [i \in 1..MaxIds |-> i],
                status |-> "ok", missing |-> {}, pre |-> <<>>]
    /\ SearchInit /\ BuilderInit /\ WeaviateNewInit /\ ColumnArrayInit
    /\ fCall = [op |-> "del_items", threads |-> [t \in Threads |-> ThreadIdle]]

ConcurrentFrame == UNCHANGED <<qLast, svars, bvars, wvars, avars>>

\* lines 150-154: items = self._get_items(doc_ids), then the length test
Qdrant_del_items_check(t) ==
    /\ fCall.threads[t].pc = "idle"
    /\ \E doc_ids \in SeqsUpTo(DocIds, MaxReq) :
          LET items == Qdrant_get_items(qPoints, doc_ids)
          IN fCall' = [fCall EXCEPT !.threads[t] =
                 [pc |-> IF QdrantDelMustRaise(items, doc_ids)
                         THEN "KeyError" ELSE "checked",
                  ids |-> doc_ids, all_persisted |-> TRUE, deleted |-> {}]]
    /\ qPoints' = qPoints
    /\ ConcurrentFrame

\* lines 156-161: self._client.delete(...); ids that are no longer stored
\* are skipped by the server without an error
Qdrant_del_items_delete(t) ==
    /\ fCall.threads[t].pc = "checked"
    /\ qPoints' = QdrantDelete(qPoints, fCall.threads[t].ids)
    /\ fCall' = [fCall EXCEPT
                    !.threads[t].pc = "ok",
                    !.threads[t].deleted =
                        Range(fCall.threads[t].ids) \cap QdrantStoredIds(qPoints),
                    !.threads[t].all_persisted =
                        Range(fCall.threads[t].ids) \subseteq QdrantStoredIds(qPoints)]
    /\ ConcurrentFrame

\* the call has returned or raised; the thread may call again
Qdrant_del_items_return(t) ==
    /\ fCall.threads[t].pc \in {"ok", "KeyError"}
    /\ fCall' = [fCall EXCEPT !.threads[t] = ThreadIdle]
    /\ qPoints' = qPoints
    /\ ConcurrentFrame

ConcurrentNext ==
    \/ \E t \in Threads : Qdrant_del_items_check(t)
    \/ \E t \in Threads : Qdrant_del_items_delete(t)
    \/ \E t \in Threads : Qdrant_del_items_return(t)

(***************************************************************************)
(* Specifications                                                          *)
(***************************************************************************)
Init ==
    /\ QdrantInit /\ SearchInit /\ BuilderInit /\ WeaviateNewInit
    /\ ColumnArrayInit /\ CallInit

SpecQdrant == Init /\ [][QdrantNext]_vars

SpecSearch == Init /\ [][SearchNext]_vars

SpecBuilder == Init /\ [][BuilderNext]_vars

SpecWeaviateInit == Init /\ [][WeaviateInitNext]_vars

InitOperational ==
    /\ QdrantInit /\ SearchInit /\ BuilderInit /\ WeaviateOperationalInit
    /\ ColumnArrayInit /\ CallInit

SpecWeaviate == InitOperational /\ [][WeaviateNext]_vars

InitArray ==
    /\ QdrantInit /\ SearchInit /\ BuilderInit /\ WeaviateNewInit
    /\ ArrayInit /\ CallInit

\* index() calls alone
WeaviateIndexNext ==
    \/ Weaviate_index
    \/ Weaviate_return

SpecWeaviateIndex == InitOperational /\ [][WeaviateIndexNext]_vars

\* _del_items calls alone on a populated index; the thread that runs
\* _del_items keeps running it: a query that can be sent is sent, and the
\* method returns once has_matches is false
InitPopulated ==
    /\ QdrantInit /\ SearchInit /\ BuilderInit /\ WeaviatePopulatedInit
    /\ ColumnArrayInit /\ CallInit

WeaviateDelNext ==
    \/ Weaviate_del_items
    \/ Weaviate_del_items_loop
    \/ Weaviate_del_items_return
    \/ Weaviate_return

SpecWeaviateDel ==
    /\ InitPopulated
    /\ [][WeaviateDelNext]_vars
    /\ WF_vars(Weaviate_del_items_loop)
    /\ WF_vars(Weaviate_del_items_return)

SpecArray == InitArray /\ [][ArrayNext]_vars

SpecColumns == Init /\ [][ColumnsNext]_vars

SpecTensor == Init /\ [][TensorNext]_vars

SpecTopK == Init /\ [][TopKNext]_vars

SpecDocument == Init /\ [][DocumentNext]_vars

SpecTraverse == Init /\ [][TraverseNext]_vars

SpecBatch == Init /\ [][BatchNext]_vars

SpecApply == Init /\ [][ApplyNext]_vars

SpecKind == Init /\ [][KindNext]_vars

SpecQdrantConcurrent == InitConcurrent /\ [][ConcurrentNext]_vars

(***************************************************************************)
(* Claims about QdrantDocumentIndex                                        *)
(***************************************************************************)
\* the requested ids that were not persisted when the last call started
QdrantAbsent == Range(qLast.ids) \ QdrantStoredIds(qLast.pre)

\* C1: del_items(ids) with at least one requested id not persisted raises
\* KeyError, the reported missing set is exactly the set of requested ids that
\* are absent, and the stored collection is what it was before the call.
C1_DelMissingRaisesAndDeletesNothing ==
    (qLast.op = "del_items" /\ QdrantAbsent /= {}) =>
        /\ qLast.status = "KeyError"
        /\ qLast.missing = QdrantAbsent
        /\ qPoints = qLast.pre

\* a del_items call naming both a persisted and an absent id has raised
C1_Witness ==
    /\ qLast.op = "del_items"
    /\ qLast.status = "KeyError"
    /\ QdrantAbsent /= {}
    /\ Range(qLast.ids) \cap QdrantStoredIds(qLast.pre) /= {}
    /\ qPoints /= <<>>

\* C25: del_items(ids) with every requested id persisted succeeds, also when
\* an id is listed more than once, and afterwards none of the requested ids
\* is persisted.
C25_DelOfPersistedIdsSucceeds ==
    (qLast.op = "del_items" /\ QdrantAbsent = {}) =>
        /\ qLast.status = "ok"
        /\ Range(qLast.ids) \cap QdrantStoredIds(qPoints) = {}

\* the same for lists of distinct ids
C25_DelOfDistinctPersistedIdsSucceeds ==
    (qLast.op = "del_items" /\ QdrantAbsent = {}
        /\ Cardinality(Range(qLast.ids)) = Len(qLast.ids)) =>
        /\ qLast.status = "ok"
        /\ Range(qLast.ids) \cap QdrantStoredIds(qPoints) = {}

\* C24: when del_items calls run concurrently on one index, every call that
\* returns successfully found each of its requested ids persisted when its
\* delete was applied, and every call that raises not-found has deleted
\* nothing.
C24_ConcurrentDelIsAllOrNothing ==
    \A t \in Threads :
       /\ fCall.threads[t].pc = "ok" => fCall.threads[t].all_persisted
       /\ fCall.threads[t].pc = "KeyError" => fCall.threads[t].deleted = {}
(***************************************************************************)
(* Claims about the search operations                                      *)
(***************************************************************************)
BatchedOps == {"find_batched", "filter_batched", "text_search_batched"}

\* what query q of the last call returns on its own
ExpectedGroup(q) ==
    CASE sLast.op = "filter_batched" -> FilterOne(q, sLast.limit)
      [] sLast.op = "text_search_batched" /\ sLast.backend = "weaviate" ->
            TextSearchOne(q, sLast.limit)
      [] sLast.op = "text_search_batched" /\ sLast.backend = "qdrant" ->
            QdrantTextOne(q, sLast.limit)
      [] sLast.op = "find_batched" /\ sLast.backend = "qdrant" ->
            QdrantSearchOne(q, sLast.limit)
      [] OTHER -> FindOne(q, sLast.limit, sLast.score_name, sLast.score_threshold)

\* C2: a batched query returns one entry per query and entry i holds the
\* results of query i, in whatever order the backend lists the result groups.
C2_BatchedResultsFollowQueries ==
    sLast.op \in BatchedOps =>
        /\ Len(sLast.result) = Len(sLast.queries)
        /\ \A i \in 1..Len(sLast.queries) :
               sLast.result[i] = ExpectedGroup(sLast.queries[i])

\* C6: every provided score_threshold (any value but None) is an inclusive
\* cutoff: no document returned by find, find_batched or QueryBuilder.find
\* lies beyond it.
C6_ThresholdAlwaysApplied ==
    (/\ sLast.op \in {"find", "find_batched", "builder_find"}
     /\ sLast.backend = "weaviate"
     /\ sLast.score_threshold /= NoThreshold) =>
        \A i \in 1..Len(sLast.result) :
            \A j \in 1..Len(sLast.result[i].documents) :
                LET s == sLast.result[i].scores[j]
                IN IF sLast.score_name = "distance"
                   THEN s <= sLast.score_threshold
                   ELSE s >= sLast.score_threshold
(***************************************************************************)
(* Claims about the QueryBuilder                                           *)
(***************************************************************************)
\* C7: every accumulating method (find, filter, text_search and the batched
\* variants) returns the builder it was called on, and no query reaches the
\* backend before build() is called.
C7_AccumulatingMethodsReturnBuilder ==
    /\ bLast.method \in AccumulatingMethods => bLast.ret = "self"
    /\ ~bLast.built => bNetworkCalls = 0
(***************************************************************************)
(* Claims about WeaviateDocumentIndex                                      *)
(***************************************************************************)
\* the columns marked is_embedding
EmbeddingColumns == {i \in 1..Len(wColumns) : wColumns[i].is_embedding}

\* the schema under construction breaks a rule of _validate_columns
SchemaInvalid ==
    \/ Cardinality(EmbeddingColumns) > 1
    \/ \E i \in EmbeddingColumns : wColumns[i].db_type \notin WEAVIATE_PY_VEC_TYPES

\* C4: constructing an index for a schema with more than one is_embedding
\* column, or with an embedding column of a non-vector db type, raises before
\* any backend class is created: create_class is never called and the index
\* never becomes operational.
C4_InvalidSchemaFailsBeforeCreate ==
    (wpc /= "new" /\ SchemaInvalid) =>
        /\ wCreateClassCalls = 0
        /\ wpc \in {"configured", "failed"}

\* a schema with two vector embedding columns has been refused
C4_Witness ==
    /\ wpc = "failed"
    /\ Cardinality(EmbeddingColumns) > 1
    /\ \A i \in 1..Len(wColumns) : wColumns[i].db_type /= "ValueError"
    /\ wCreateClassCalls = 0

\* C18: constructing an index for a schema in which no column is marked as
\* the embedding column fails at construction: the index never becomes
\* operational and no backend class is created.
C18_NoEmbeddingFailsAtConstruction ==
    (wpc /= "new" /\ EmbeddingColumns = {}) =>
        /\ wpc /= "operational"
        /\ wCreateClassCalls = 0

\* the last del_items call has returned or raised
DelItemsDone == wLast.op = "del_items" /\ wLast.status /= "running"

\* the ids the last call asked for that were not persisted when it started
WeaviateAbsent == Range(wLast.ids) \ wLast.preIds

\* C5: del_items(ids) with a requested id that is not persisted fails with a
\* not-found error, and none of the requested documents that exist is deleted.
C5_DelMissingRaisesAndDeletesNothing ==
    (DelItemsDone /\ WeaviateAbsent /= {}) =>
        /\ wLast.status = "KeyError"
        /\ WeaviateStoredIds(wObjects) = wLast.preIds

\* the where filter with every path ["id"] rewritten, at any depth
RECURSIVE Rewritten(_)
Rewritten(where_filter) ==
    [path |-> IF where_filter.path = <<"id">> THEN <<DOCUMENTID>>
              ELSE where_filter.path,
     operator |-> where_filter.operator,
     value |-> where_filter.value,
     operands |-> [i \in 1..Len(where_filter.operands) |->
                      Rewritten(where_filter.operands[i])]]

\* C30: QueryBuilder.filter(where_filter) does not modify the caller's
\* filter: after the call the caller's where_filter, its nested operand
\* dictionaries included, equals what it was before the call, and the
\* rewrite of id to docarrayid is in the builder's query only.
C30_FilterLeavesCallerFilterAlone ==
    bLast.method = "filter" =>
        /\ bLast.caller_filter = bLast.where_filter
        /\ bQuery.where = <<Rewritten(bLast.where_filter)>>

\* the ids of the last index() call are pairwise distinct
DistinctIds(ids) == \A i, j \in 1..Len(ids) : ids[i] = ids[j] => i = j

\* C8: after index(docs) with N documents of pairwise distinct ids on an empty
\* index, num_docs() returns N.
C8_NumDocsAfterIndex ==
    (wLast.op = "index" /\ wLast.preIds = {} /\ DistinctIds(wLast.ids)) =>
        Weaviate_num_docs = Len(wLast.ids)

\* C27: after any sequence of index() calls at most one persisted object
\* carries any given document id, so num_docs() is the number of distinct
\* ids persisted.
C27_OneObjectPerId ==
    /\ \A k1, k2 \in DOMAIN wObjects :
          wObjects[k1].data_object[DOCUMENTID] = wObjects[k2].data_object[DOCUMENTID]
              => k1 = k2
    /\ Weaviate_num_docs = Cardinality(WeaviateStoredIds(wObjects))

\* C27 (amended): at most one persisted object carries any given document id
\* together with given values of the other properties: indexing a document
\* whose id and properties are already persisted replaces the stored object,
\* whatever its vector.
C27_OneObjectPerIdAndProperties ==
    \A k1, k2 \in DOMAIN wObjects :
       wObjects[k1].data_object = wObjects[k2].data_object => k1 = k2

\* a document indexed again with another vector has replaced the stored one,
\* next to a document of the same id and another text
C27_Witness ==
    /\ wLast.op = "index"
    /\ wLast.status = "ok"
    /\ wLast.ids = <<1>>
    /\ wLast.preIds = {1}
    /\ Weaviate_num_docs = 2
    /\ WeaviateStoredIds(wObjects) = {1}
    /\ \E k \in DOMAIN wObjects : wObjects[k].vector = "v2"

\* _del_items has returned
DelReturned ==
    /\ wpc = "operational"
    /\ wLast.op = "del_items"
    /\ wLast.status = "ok"

\* on return the last query reported no match, no persisted object has an id
\* of doc_ids, and each query but the last one deleted an object
DelComplete ==
    DelReturned =>
        /\ ~wDel.has_matches
        /\ WeaviateMatches(wObjects, wLast.ids) = {}
        /\ wDel.calls >= 1
        /\ wDel.calls <= wDel.matched + 1

\* C28: _del_items terminates and is complete: with a backend that deletes at
\* least one and at most MaxDeletesPerQuery matching objects per query while
\* matches remain, every _del_items call returns, after at most one query per
\* matching object plus the one that reports zero matches, and on return no
\* persisted object has an id in doc_ids.
C28_DelItemsTerminatesAndIsComplete ==
    /\ []DelComplete
    /\ (wpc = "del_items") ~> DelReturned

\* _del_items has returned after more objects matched than one query deletes
C28_Witness ==
    /\ DelReturned
    /\ wDel.matched > MaxDeletesPerQuery
    /\ wDel.calls >= 3
    /\ WeaviateMatches(wObjects, wLast.ids) = {}
(***************************************************************************)
(* Claims about DocumentArray                                              *)
(***************************************************************************)
\* isinstance(doc, D)
IsInstance(doc, D) == IsSubclass(doc.cls, D)

C26_ExtendIsAtomic ==
    (/\ aLast.op = "extend"
     /\ aDocType /= "AnyDocument"
     /\ \E i \in 1..Len(aLast.args) : ~IsInstance(aLast.args[i], aDocType)) =>
        /\ aLast.status = "ValueError"
        /\ aData = aLast.pre

\* C9: set_column(field, values) on an array of n documents fails with an
\* error whenever the number of values differs from n; it neither assigns a
\* prefix of the documents nor silently drops surplus values.
C9_SetColumnLengthMismatchFails ==
    (aLast.op = "set_column" /\ Len(aLast.args) /= Len(aLast.pre))
        => (aLast.status /= "ok" /\ aData = aLast.pre)

C10_StackUnstackRoundTrip ==
    aLast.op = "unstack" =>
        /\ aLast.status = "ok"
        /\ Len(aLast.result) = Len(aStacked.storage.text)
        /\ \A i \in 1..Len(aLast.result) :
              /\ aLast.result[i].text = aStacked.storage.text[i]
              /\ aLast.result[i].tensor = aStacked.storage.tensor[i]
\* C11: del stacked[key] raises a not-supported error for every key (int,
\* slice, index list, boolean mask), the message tells the caller to unstack
\* first, and the stacked array's length and contents are unchanged.
C11_StackedDeleteAlwaysFails ==
    aLast.op = "__delitem__" =>
        /\ aLast.status = "NotImplementedError"
        /\ aLast.result = UNSTACK_GUIDANCE
        /\ aStacked = aLast.pre

\* a deletion by int key on a non-empty stacked array has been refused
C11_Witness ==
    /\ aLast.op = "__delitem__"
    /\ aLast.args[1].kind = "int"
    /\ Len(aStacked.storage.text) > 0
    /\ aLast.status = "NotImplementedError"
(***************************************************************************)
(* Claims about the parametrized tensor types                              *)
(***************************************************************************)
\* the concrete shape fits the declared one: same rank, fixed dimensions
\* equal, equal names on equal sizes
ShapeFits(concrete, declared) ==
    /\ Len(concrete) = Len(declared)
    /\ \A i \in 1..Len(declared) :
          /\ declared[i] \in Dims => concrete[i] = declared[i]
          /\ \A j \in 1..Len(declared) :
                (declared[i] \in DimNames /\ declared[j] = declared[i])
                    => concrete[i] = concrete[j]

\* C12: validating a value against T[shape] either returns a tensor whose
\* shape is the declared shape (the value unchanged when its shape already
\* was, reshaped when the element counts match) or raises; it never returns
\* a tensor of another shape.
C12_ValidatedShapeIsDeclaredShape ==
    (fCall.op = "validate" /\ fCall.status = "ok") =>
        /\ ShapeFits(fCall.result.shape, fCall.shape)
        /\ ShapeFits(fCall.value.shape, fCall.shape) => fCall.result = fCall.value
        /\ ElementCount(fCall.result.shape) = ElementCount(fCall.value.shape)

\* a value of shape (1, 2) has been reshaped to the declared shape (2, 1)
C12_Witness ==
    /\ fCall.op = "validate"
    /\ fCall.status = "ok"
    /\ fCall.shape = <<2, 1>>
    /\ fCall.value.shape = <<1, 2>>
    /\ fCall.result.shape = <<2, 1>>

\* C13: with named dimensions a name is bound at its first occurrence and a
\* later occurrence of another size fails; different names may differ; a
\* tensor of another rank or with another fixed dimension fails.
C13_NamedDimensionsBindOnce ==
    (/\ fCall.op = "validate"
     /\ fCall.item.kind = "tuple"
     /\ \E i \in 1..Len(fCall.item.value) : fCall.item.value[i] \in DimNames)
        => (fCall.status = "ok" <=> ShapeFits(fCall.value.shape, fCall.item.value))

\* T['x', 'x'] has refused a tensor of shape (1, 2)
C13_Witness ==
    /\ fCall.op = "validate"
    /\ fCall.item.kind = "tuple"
    /\ fCall.item.value = <<-1, -1>>
    /\ fCall.value.shape = <<1, 2>>
    /\ fCall.status = "ValueError"
\* C14: issubclass(T[s], T[s']) holds exactly when s = s', also for classes
\* from separate T[...] evaluations; T[s] is a subclass of T; a value
\* validated as T[s] is an instance of T[s] and of T and of no T[s'] with
\* s' different from s.
C14_TypeChecksAreStructural ==
    /\ (/\ fCall.op = "issubclass"
        /\ fCall.subclass.kind = "parametrized"
        /\ fCall.subclass.base = fCall.cls.base)
          => /\ fCall.cls.kind = "parametrized"
                   => (fCall.result <=> fCall.subclass.target = fCall.cls.target)
             /\ fCall.cls.kind = "base" => fCall.result
    /\ (fCall.op = "isinstance" /\ fCall.instance.type.base = fCall.cls.base)
          => /\ fCall.cls.kind = "parametrized"
                   => (fCall.result <=> fCall.instance.type.target = fCall.cls.target)
             /\ fCall.cls.kind = "base" => fCall.result
\* C15: reading back, with _read_from_proto, the message written by
\* _flush_tensor_to_proto either yields a tensor with the same shape, dtype
\* and bytes as the tensor written, or raises.
C15_ProtoRoundTripIsExact ==
    (fCall.op = "proto_roundtrip" /\ fCall.status = "ok") =>
        /\ fCall.result.shape = fCall.value.shape
        /\ fCall.result.dtype = fCall.value.dtype
        /\ Flatten(fCall.result.data) = Flatten(fCall.value.data)
(***************************************************************************)
(* Claims about the computational backend                                  *)
(***************************************************************************)
\* values and idx are the best min(k, n) of the row, best first
IsTopK(row, k, descending, values, idx) ==
    LET better(a, b) == IF descending THEN a >= b ELSE a <= b
    IN /\ Len(values) = (IF k < Len(row) THEN k ELSE Len(row))
       /\ Len(idx) = Len(values)
       /\ \A j \in 1..Len(idx) : idx[j] \in 1..Len(row) /\ row[idx[j]] = values[j]
       /\ \A i, j \in 1..Len(idx) : idx[i] = idx[j] => i = j
       /\ \A j \in 1..(Len(values) - 1) : better(values[j], values[j + 1])
       /\ \A j \in 1..Len(idx) : \A m \in (1..Len(row)) \ Range(idx) :
             better(values[j], row[m])

C17_UpdateKeepsId ==
    fCall.op = "update" => fCall.result.id = fCall.self.id

\* the fields that are no list, set, dict or document
SimpleFields == {field_name \in DocumentFields : ~IsListField(field_name)}

\* C29: update(other) on two documents of one type copies every data property
\* that is set in other: for every simple field f, self.f equals other.f after
\* the call if other.f is not None, and keeps its previous value if other.f is
\* None.
C29_UpdateCopiesEveryFieldThatIsNotNone ==
    (fCall.op = "update" /\ fCall.status = "ok") =>
        \A f \in SimpleFields :
           fCall.result[f] = IF fCall.other[f] /= "None" THEN fCall.other[f]
                             ELSE fCall.self[f]

(***************************************************************************)
(* Claims about traverse_flat                                              *)
(***************************************************************************)
\* the positions of the nodes at a depth of the array of a shape
Positions(shape, depth) ==
    CASE depth = 1 -> {<<i>> : i \in 1..Len(shape)}
      [] depth = 2 -> UNION {{<<i, j>> : j \in 1..Len(shape[i])} :
                                i \in 1..Len(shape)}
      [] depth = 3 -> UNION {UNION {{<<i, j, l>> : l \in 1..shape[i][j]} :
                                       j \in 1..Len(shape[i])} :
                                i \in 1..Len(shape)}

\* array order on positions of one depth
LexLess(a, b) ==
    \E k \in 1..Len(a) : a[k] < b[k] /\ \A j \in 1..(k - 1) : a[j] = b[j]

\* what a "__"-separated path of existing attributes reaches: the depth of
\* the nodes, their kind, and the attribute name of a leaf
Reached(access_path) ==
    CASE access_path = <<"mm_text">> ->
             [depth |-> 1, kind |-> "leaf", name |-> "mm_text"]
      [] access_path = <<"mm_tensor">> ->
             [depth |-> 1, kind |-> "leaf", name |-> "mm_tensor"]
      [] access_path = <<"mm_da">> ->
             [depth |-> 2, kind |-> "doc", name |-> ""]
      [] access_path = <<"mm_da", "__", "sub_text">> ->
             [depth |-> 2, kind |-> "leaf", name |-> "sub_text"]
      [] access_path = <<"mm_da", "__", "sub_da">> ->
             [depth |-> 3, kind |-> "doc", name |-> ""]
      [] access_path = <<"mm_da", "__", "sub_da", "__", "sub_sub_text">> ->
             [depth |-> 3, kind |-> "leaf", name |-> "sub_sub_text"]

NodePaths ==
    {<<"mm_text">>, <<"mm_tensor">>, <<"mm_da">>, <<"mm_da", "__", "sub_text">>,
     <<"mm_da", "__", "sub_da">>,
     <<"mm_da", "__", "sub_da", "__", "sub_sub_text">>}

C20_BatchesPartitionTheArray ==
    (fCall.op = "_batch" /\ fCall.status = "ok") =>
        LET N == Len(fCall.data)
            n == Len(fCall.batches)
            all == Flatten(fCall.index_batches)
        IN /\ n * fCall.batch_size >= N
           /\ (n - 1) * fCall.batch_size < N \/ (n = 0 /\ N = 0)
           /\ \A i \in 1..(n - 1) : Len(fCall.batches[i]) = fCall.batch_size
           /\ n > 0 => Len(fCall.batches[n]) \in 1..fCall.batch_size
           /\ ~fCall.shuffle => Flatten(fCall.batches) = fCall.data
           /\ Len(all) = N
           /\ \A pos \in 0..(N - 1) : \E k \in 1..N : all[k] = pos
           /\ \A i \in 1..n : \A k \in 1..Len(fCall.batches[i]) :
                 fCall.batches[i][k] = fCall.data[fCall.index_batches[i][k] + 1]

\* four documents shuffled into batches of three and one
C20_Witness ==
    /\ fCall.op = "_batch"
    /\ fCall.status = "ok"
    /\ fCall.shuffle
    /\ fCall.batch_size = 3
    /\ fCall.data = <<"x", "y", "y", "x">>
    /\ fCall.index_batches = << <<2, 0, 3>>, <<1>> >>
    /\ fCall.batches = << <<"y", "x", "x">>, <<"y">> >>

(***************************************************************************)
(* Claims about apply                                                      *)
(***************************************************************************)
\* C21: apply / apply_batch with backend='process' and a lambda or a locally
\* defined function raises before any document is handed to a worker, and
\* the array is as it was.
C21_ProcessPoolRefusesLocalFunctions ==
    (fCall.op \in {"apply", "apply_batch"} /\ fCall.backend = "process"
        /\ fCall.func \in {"lambda", "local"}) =>
        /\ fCall.status = "ValueError"
        /\ fCall.handed = 0
        /\ fCall.data = fCall.pre

\* a local function refused for an array of two documents
C21_Witness ==
    /\ fCall.op = "apply"
    /\ fCall.backend = "process"
    /\ fCall.func = "local"
    /\ fCall.status = "ValueError"
    /\ fCall.pre = <<"x", "y">>

(***************************************************************************)
(* Claims about column-kind resolution                                     *)
(***************************************************************************)
\* the tensor classes
TensorLike == {"np.ndarray", "NdArray", "AbstractTensor", "torch.Tensor",
               "TorchTensor"}

=============================================================================
